---- MODULE Spec2Model ----
(***************************************************************************)
(* Turing Soup (lcrh/turingsoup): the BFF interpreter, pair execution with *)
(* its write-back gate, pair selection, and the worker pool with the       *)
(* driver's back-pressure counter.                                         *)
(*                                                                         *)
(* Tapes and the soup are sequences of bytes; the code's 0-based index i   *)
(* is position i + 1 of the sequence.                                      *)
(***************************************************************************)
EXTENDS Integers, Sequences, FiniteSets, TLC

VARIABLES
    \* The BFFInterpreter object (src/js/bff.js:65-299): its tape and its fields
    \* ip, head0, head1, stepCount, writeCount, loopJumps, halted, haltReason.
    interp,
    \* The tape as it was handed to the constructor.
    initialTape,
    \* Population.soup / PopulationWasm.soup: the shared byte buffer.
    soup,
    \* The pair execution that ran last: which implementation ran it, the pair,
    \* the soup before it, the post-execution tape and the returned counters.
    lastRun,
    \* One call of selectRandomPair: the configuration it reads (alignment,
    \* localityLimit), its position in the call and its locals a and b.
    sel,
    \* The PopulationWasm object (src/unnamed/part_000): pairsPerStep,
    \* pendingExecutions, pairCount, currentPairs, execAccumPairs, and how far
    \* initialize() has got.
    pop,
    \* The WorkerPool object (src/unnamed/part_001): ready, numWorkers and
    \* pendingCallbacks.
    pool,
    \* Per worker: the 'execute' messages posted to it and not yet handled, and
    \* the handler's position in the message it is handling.
    workers,
    \* Per worker: the 'results' messages posted to the main thread and not yet
    \* handled there.
    toMain,
    \* Per call of executeBatch: its pairs, its slices, the promise of each slice
    \* and of the call, and what reached the driver.
    dispatches,
    \* One call of the slicing loop of executeBatch on its own: input and slices.
    batchRun,
    \* The page's "let running" flag (src/js/bff.js:1739), read by runLoop.
    running

interpVars == <<interp, initialTape>>

pairVars == <<soup, lastRun>>

selVars == <<sel>>

poolVars == <<pop, pool, workers, toMain, dispatches>>

batchVars == <<batchRun>>

driverVars == <<running>>

vars == <<interpVars, pairVars, selVars, poolVars, batchVars, driverVars>>

----------------------------------------------------------------------------
(* Bounds of the model *)

\* regionSize: bytes per region; a tape is 2 * R bytes.
R == 2

\* BFFInterpreter.MAX_STEPS / PopulationWasm.maxSteps, scaled down.
MAX_STEPS == 10

----------------------------------------------------------------------------
(* Bytes *)

Null == "null"

BFF_INSTRUCTIONS ==
    [c \in {"<", ">", "{", "}", "-", "+", ".", ",", "[", "]"} |->
        CASE c = "<" -> 60
          [] c = ">" -> 62
          [] c = "{" -> 123
          [] c = "}" -> 125
          [] c = "-" -> 45
          [] c = "+" -> 43
          [] c = "." -> 46
          [] c = "," -> 44
          [] c = "[" -> 91
          [] c = "]" -> 93]

OpcodeBytes == {BFF_INSTRUCTIONS[c] : c \in DOMAIN BFF_INSTRUCTIONS}

byteToInstruction(byte) ==
    IF byte \in OpcodeBytes
    THEN CHOOSE c \in DOMAIN BFF_INSTRUCTIONS : BFF_INSTRUCTIONS[c] = byte
    ELSE Null

\* value & 0xFF on the integers the code produces (-1 .. 256).
And0xFF(v) == v % 256

\* Bytes region A of an input tape is drawn from: every opcode and zero.
ProgBytes == OpcodeBytes \cup {0}

\* Bytes region B of an input tape is drawn from: zero, the largest byte and ']'.
DataBytes == {0, 255, 93}

----------------------------------------------------------------------------
(* Tape (src/unnamed/part_002:142-242) *)

TapeWrap(t, index) == ((index % Len(t)) + Len(t)) % Len(t)

TapeGet(t, index) == t[TapeWrap(t, index) + 1]

TapeSet(t, index, value) == [t EXCEPT ![TapeWrap(t, index) + 1] = And0xFF(value)]

\* increment() without the "& 0xFF".
TapeIncrementUnmasked(t, index) ==
    [t EXCEPT ![TapeWrap(t, index) + 1] = @ + 1]

TapeIncrement(t, index) ==
    [t EXCEPT ![TapeWrap(t, index) + 1] = And0xFF(@ + 1)]

TapeDecrement(t, index) ==
    [t EXCEPT ![TapeWrap(t, index) + 1] = And0xFF(@ - 1)]

----------------------------------------------------------------------------
(* BFFInterpreter *)

\* The interpreter object right after the constructor ran reset().
reset(t) ==
    [tape |-> t, ip |-> 0, head0 |-> 0, head1 |-> 0, stepCount |-> 0,
     writeCount |-> 0, loopJumps |-> 0, halted |-> FALSE, haltReason |-> Null]

\* JavaScript's remainder: the result has the sign of the dividend.
jsRem(a, b) == IF a < 0 THEN -((-a) % b) ELSE a % b

\* _wrapHead reduced to "index % size".
wrapHeadRemainderOnly(t, index) == jsRem(index, Len(t))

wrapHead(t, index) == jsRem(jsRem(index, Len(t)) + Len(t), Len(t))

\* The scan loop of _findMatchingBracket from position pos with the depth so far.
RECURSIVE scanBracket(_, _, _, _)
scanBracket(t, pos, direction, depth) ==
    LET p == pos + direction IN
    IF p < 0 \/ p >= Len(t) THEN -1
    ELSE LET byte == TapeGet(t, p)
             d == IF direction = 1
                  THEN (IF byte = BFF_INSTRUCTIONS["["] THEN depth + 1
                        ELSE IF byte = BFF_INSTRUCTIONS["]"] THEN depth - 1
                        ELSE depth)
                  ELSE (IF byte = BFF_INSTRUCTIONS["]"] THEN depth + 1
                        ELSE IF byte = BFF_INSTRUCTIONS["["] THEN depth - 1
                        ELSE depth)
         IN IF d = 0 THEN p ELSE scanBracket(t, p, direction, d)

\* The scan started at depth 0, as if the bracket at start were not open yet.
findMatchingBracketDepth0(t, start, direction) == scanBracket(t, start, direction, 0)

\* A scan that leaves the tape reported as "stay at the bracket" instead of -1.
findMatchingBracketOrStay(t, start, direction) ==
    LET target == scanBracket(t, start, direction, 1) IN
    IF target = -1 THEN start ELSE target

findMatchingBracket(t, start, direction) == scanBracket(t, start, direction, 1)

\* The post-increment through _wrapIP: ip = (ip + 1) % size, never halting.
advanceIPWrapped(s) == [s EXCEPT !.ip = jsRem(jsRem(@ + 1, Len(s.tape)) + Len(s.tape), Len(s.tape))]

\* "Advance IP (unless halted)" at the end of step(), and the no-op branch.
advanceIP(s) ==
    IF s.ip + 1 >= Len(s.tape)
    THEN [s EXCEPT !.ip = @ + 1, !.halted = TRUE, !.haltReason = "end_of_tape"]
    ELSE [s EXCEPT !.ip = @ + 1]

\* case '.' with its writeCount++ left out.
copyToHead1Uncounted(s) ==
    [s EXCEPT !.tape = TapeSet(s.tape, s.head1, TapeGet(s.tape, s.head0))]

\* case '.': tape[head1] = tape[head0].
copyToHead1(s) ==
    [s EXCEPT !.tape = TapeSet(s.tape, s.head1, TapeGet(s.tape, s.head0)),
              !.writeCount = @ + 1]

\* case ',' copying in the direction of '.'.
copyToHead0Reversed(s) ==
    [s EXCEPT !.tape = TapeSet(s.tape, s.head1, TapeGet(s.tape, s.head0)),
              !.writeCount = @ + 1]

\* case ',': tape[head0] = tape[head1].
copyToHead0(s) ==
    [s EXCEPT !.tape = TapeSet(s.tape, s.head0, TapeGet(s.tape, s.head1)),
              !.writeCount = @ + 1]

\* The taken ']' without its loopJumps++.
takeBackwardJumpUncounted(s, target) == [s EXCEPT !.ip = target]

\* The taken ']' without "this.ip = target".
takeBackwardJumpStay(s, target) == [s EXCEPT !.loopJumps = @ + 1]

\* case ']', jump taken and matched: ip = target; loopJumps++.
takeBackwardJump(s, target) == [s EXCEPT !.ip = target, !.loopJumps = @ + 1]

dispatch(s, instruction) ==
    CASE instruction = "<" -> advanceIP([s EXCEPT !.head0 = wrapHead(s.tape, s.head0 - 1)])
      [] instruction = ">" -> advanceIP([s EXCEPT !.head0 = wrapHead(s.tape, s.head0 + 1)])
      [] instruction = "{" -> advanceIP([s EXCEPT !.head1 = wrapHead(s.tape, s.head1 - 1)])
      [] instruction = "}" -> advanceIP([s EXCEPT !.head1 = wrapHead(s.tape, s.head1 + 1)])
      [] instruction = "-" ->
            advanceIP([s EXCEPT !.tape = TapeDecrement(s.tape, s.head0),
                                !.writeCount = @ + 1])
      [] instruction = "+" ->
            advanceIP([s EXCEPT !.tape = TapeIncrement(s.tape, s.head0),
                                !.writeCount = @ + 1])
      [] instruction = "." -> advanceIP(copyToHead1(s))
      [] instruction = "," -> advanceIP(copyToHead0(s))
      [] instruction = "[" ->
            IF TapeGet(s.tape, s.head0) = 0
            THEN LET target == findMatchingBracket(s.tape, s.ip, 1) IN
                 IF target = -1
                 THEN [s EXCEPT !.halted = TRUE, !.haltReason = "unmatched_bracket"]
                 ELSE advanceIP([s EXCEPT !.ip = target])
            ELSE advanceIP(s)
      [] instruction = "]" ->
            IF TapeGet(s.tape, s.head0) # 0
            THEN LET target == findMatchingBracket(s.tape, s.ip, -1) IN
                 IF target = -1
                 THEN [s EXCEPT !.halted = TRUE, !.haltReason = "unmatched_bracket"]
                 ELSE advanceIP(takeBackwardJump(s, target))
            ELSE advanceIP(s)

\* step() with the step-limit check left out.
stepNoLimit(s) ==
    IF s.halted THEN s
    ELSE LET instruction == byteToInstruction(TapeGet(s.tape, s.ip))
             s1 == [s EXCEPT !.stepCount = @ + 1]
         IN IF instruction = Null THEN advanceIP(s1) ELSE dispatch(s1, instruction)

\* step() with the "if (this.halted) return" guard left out.
stepNoHaltedGuard(s) ==
    IF s.stepCount >= MAX_STEPS
    THEN [s EXCEPT !.halted = TRUE, !.haltReason = "max_steps"]
    ELSE LET instruction == byteToInstruction(TapeGet(s.tape, s.ip))
             s1 == [s EXCEPT !.stepCount = @ + 1]
         IN IF instruction = Null THEN advanceIP(s1) ELSE dispatch(s1, instruction)

\* step() counting a step only when the byte is an opcode.
stepNoOpUncounted(s) ==
    IF s.halted THEN s
    ELSE IF s.stepCount >= MAX_STEPS
    THEN [s EXCEPT !.halted = TRUE, !.haltReason = "max_steps"]
    ELSE LET instruction == byteToInstruction(TapeGet(s.tape, s.ip))
         IN IF instruction = Null THEN advanceIP(s)
            ELSE dispatch([s EXCEPT !.stepCount = @ + 1], instruction)

\* step() whose no-op branch increments ip without the end-of-tape check.
stepNoOpNoEndCheck(s) ==
    IF s.halted THEN s
    ELSE IF s.stepCount >= MAX_STEPS
    THEN [s EXCEPT !.halted = TRUE, !.haltReason = "max_steps"]
    ELSE LET instruction == byteToInstruction(TapeGet(s.tape, s.ip))
             s1 == [s EXCEPT !.stepCount = @ + 1]
         IN IF instruction = Null THEN [s1 EXCEPT !.ip = @ + 1]
            ELSE dispatch(s1, instruction)

\* step() that looks for the match of every bracket it fetches, before the
\* test of tape[head0].
stepBracketsChecked(s) ==
    IF s.halted THEN s
    ELSE IF s.stepCount >= MAX_STEPS
    THEN [s EXCEPT !.halted = TRUE, !.haltReason = "max_steps"]
    ELSE LET instruction == byteToInstruction(TapeGet(s.tape, s.ip))
             s1 == [s EXCEPT !.stepCount = @ + 1]
         IN IF instruction = Null THEN advanceIP(s1)
            ELSE IF \/ instruction = "[" /\ findMatchingBracket(s.tape, s.ip, 1) = -1
                    \/ instruction = "]" /\ findMatchingBracket(s.tape, s.ip, -1) = -1
            THEN [s1 EXCEPT !.halted = TRUE, !.haltReason = "unmatched_bracket"]
            ELSE dispatch(s1, instruction)

\* step() that counts the call before "if (this.halted) return".
stepCountsWhenHalted(s) ==
    IF s.halted THEN [s EXCEPT !.stepCount = @ + 1]
    ELSE IF s.stepCount >= MAX_STEPS
    THEN [s EXCEPT !.halted = TRUE, !.haltReason = "max_steps"]
    ELSE LET instruction == byteToInstruction(TapeGet(s.tape, s.ip))
             s1 == [s EXCEPT !.stepCount = @ + 1]
         IN IF instruction = Null THEN advanceIP(s1) ELSE dispatch(s1, instruction)

\* BFFInterpreter.step(): the interpreter object after one call.
step(s) ==
    IF s.halted THEN s
    ELSE IF s.stepCount >= MAX_STEPS
    THEN [s EXCEPT !.halted = TRUE, !.haltReason = "max_steps"]
    ELSE LET instruction == byteToInstruction(TapeGet(s.tape, s.ip))
             s1 == [s EXCEPT !.stepCount = @ + 1]
         IN IF instruction = Null THEN advanceIP(s1) ELSE dispatch(s1, instruction)

\* BFFInterpreter.run(): step until halted.
RECURSIVE run(_)
run(s) == IF s.halted THEN s ELSE run(step(s))

----------------------------------------------------------------------------
(* The interpreter as a state machine: one call of step() per transition *)

\* All sequences of length n over the set S.
SeqsOver(S, n) == [1..n -> S]

InputTapes == {a \o b : a \in SeqsOver(ProgBytes, R), b \in SeqsOver(DataBytes, R)}

\* The record of "no pair has run yet".
NoRun == [impl |-> "none"]

\* An interpreter constructed on an input tape; no population exists.
InterpInit ==
    /\ running = FALSE
    /\ initialTape \in InputTapes
    /\ interp = reset(initialTape)
    /\ soup = Null
    /\ lastRun = NoRun
    /\ sel = Null
    /\ pop = Null /\ pool = Null /\ workers = Null /\ toMain = Null /\ dispatches = Null
    /\ batchRun = Null

\* step() on a running interpreter (the loop body of run()).
Step ==
    /\ ~interp.halted
    /\ interp' = step(interp)
    /\ UNCHANGED <<initialTape, pairVars, selVars, poolVars, batchVars, driverVars>>

\* step() called on a halted interpreter.
StepHalted ==
    /\ interp.halted
    /\ interp' = step(interp)
    /\ UNCHANGED <<initialTape, pairVars, selVars, poolVars, batchVars, driverVars>>

InterpNext == Step \/ StepHalted

Spec == InterpInit /\ [][InterpNext]_vars

\* run() keeps calling step() while the interpreter is not halted.
FairSpec == Spec /\ WF_vars(Step)

----------------------------------------------------------------------------
(* Claims about the interpreter *)

HaltReasons == {"end_of_tape", "max_steps", "unmatched_bracket", "no_instructions"}

\* C1: from every input tape the run loop reaches halted = TRUE, and the number
\* of dispatched instructions (stepCount) never exceeds MAX_STEPS + 2R.
C1_Terminates == <>interp.halted /\ [](interp.stepCount <= MAX_STEPS + 2 * R)

\* A loop that is cut by the step cap: the longest run there is.
C1_Witness ==
    /\ interp.halted /\ interp.haltReason = "max_steps"
    /\ interp.stepCount = MAX_STEPS /\ interp.loopJumps > 0

\* C2: halted holds exactly when haltReason is set, the reason is one of the
\* four halt reasons, and a reason that is set never changes.
C2_OneHaltReason ==
    /\ [](interp.halted <=> interp.haltReason # Null)
    /\ [](interp.haltReason # Null => interp.haltReason \in HaltReasons)
    /\ [][interp.haltReason # Null => interp'.haltReason = interp.haltReason]_vars

\* A run ended by a bracket without a match, short of the cap and of the tape end.
C2_Witness ==
    /\ interp.halted /\ interp.haltReason = "unmatched_bracket"
    /\ interp.stepCount < MAX_STEPS /\ interp.ip < 2 * R

\* C4: an execution that finishes with no write counted ('+', '-', '.', ',')
\* leaves the tape byte-for-byte identical to its input.
C4_NoWriteNoChange ==
    (interp.halted /\ interp.writeCount = 0) => interp.tape = initialTape

\* A finished run that dispatched opcodes (it moved head0) but none that writes.
C4_Witness ==
    /\ interp.halted /\ interp.writeCount = 0
    /\ interp.stepCount > 0 /\ interp.head0 # 0

----------------------------------------------------------------------------
(* Population (src/js/bff.js:311-787): the sequential soup *)

\* Rows of the soup; Population.height.
SOUP_HEIGHT == 3

\* Population.width: one row holds one region ("one row = one tape").
SOUP_WIDTH == R

SOUP_SIZE == SOUP_WIDTH * SOUP_HEIGHT

\* Population.neighborsPerSide
neighborsPerSide == 2

\* Bytes the initial soup is drawn from: zero, '+', '>'.
SoupBytes == {0, 43, 46}
FillBytes == {0, 62}

\* Initial rows: a first byte followed by a repeated byte.
InitRows == {[i \in 1..SOUP_WIDTH |-> IF i = 1 THEN x ELSE y] :
                x \in SoupBytes, y \in FillBytes}

RECURSIVE Flatten(_)
Flatten(arrays) == IF arrays = <<>> THEN <<>> ELSE Head(arrays) \o Flatten(Tail(arrays))

InitSoups == {Flatten(rows) : rows \in [1..SOUP_HEIGHT -> InitRows]}

\* getSlice(start): regionSize bytes from start, indices taken modulo soup.length.
getSlice(sp, start) == [i \in 1..R |-> sp[((start + i - 1) % Len(sp)) + 1]]

\* The loop of setSlice from offset i on.
RECURSIVE setSliceFrom(_, _, _, _)
setSliceFrom(sp, start, data, i) ==
    IF i >= R THEN sp
    ELSE setSliceFrom([sp EXCEPT ![((start + i) % Len(sp)) + 1] = data[i + 1]],
                      start, data, i + 1)

setSlice(sp, start, data) == setSliceFrom(sp, start, data, 0)

\* this.regionSide = Math.sqrt(regionSize), on the square region sizes the
\* constructor asks for ("must be square")
regionSide(regionSize) == CHOOSE side \in 0..regionSize : side * side = regionSize

\* combineTapes with the rows of the two regions taken byte by byte instead of
\* row by row
combineTapesByteInterleaved(tapeA, tapeB, mode) ==
    LET regionSize == Len(tapeA) IN
    IF mode = "concat"
    THEN [i \in 1..(2 * regionSize) |->
            IF i <= regionSize THEN And0xFF(tapeA[i])
                               ELSE And0xFF(tapeB[i - regionSize])]
    ELSE [i \in 1..(2 * regionSize) |->
            LET idx == i - 1 IN
            IF idx % 2 = 0 THEN And0xFF(tapeA[(idx \div 2) + 1])
                           ELSE And0xFF(tapeB[(idx \div 2) + 1])]

\* combineTapes(tapeA, tapeB, mode); the region tapes come from
\* getSlice(index, this.regionSize), so this.regionSize is their length
combineTapes(tapeA, tapeB, mode) ==
    LET regionSize == Len(tapeA) IN
    IF mode = "concat"
    THEN [i \in 1..(2 * regionSize) |->
            IF i <= regionSize THEN And0xFF(tapeA[i])
                               ELSE And0xFF(tapeB[i - regionSize])]
    ELSE LET ROW_SIZE == regionSide(regionSize) IN
         [i \in 1..(2 * regionSize) |->
            LET idx == i - 1
                row == idx \div (2 * ROW_SIZE)
                col == idx % (2 * ROW_SIZE)
            IN  IF col < ROW_SIZE
                THEN And0xFF(tapeA[row * ROW_SIZE + col + 1])
                ELSE And0xFF(tapeB[row * ROW_SIZE + (col - ROW_SIZE) + 1])]

\* splitTape(combined, mode); combined holds 2 * this.regionSize bytes
splitTape(combined, mode) ==
    LET regionSize == Len(combined) \div 2 IN
    IF mode = "concat"
    THEN [left |-> [i \in 1..regionSize |-> And0xFF(combined[i])],
          right |-> [i \in 1..regionSize |-> And0xFF(combined[i + regionSize])]]
    ELSE LET ROW_SIZE == regionSide(regionSize) IN
         [left |-> [i \in 1..regionSize |->
                        LET row == (i - 1) \div ROW_SIZE
                            col == (i - 1) % ROW_SIZE
                        IN  And0xFF(combined[row * 2 * ROW_SIZE + col + 1])],
          right |-> [i \in 1..regionSize |->
                        LET row == (i - 1) \div ROW_SIZE
                            col == (i - 1) % ROW_SIZE
                        IN  And0xFF(combined[row * 2 * ROW_SIZE + ROW_SIZE + col + 1])]]

hasInstructions(t) == \E i \in 1..Len(t) : t[i] \in OpcodeBytes

\* One row of the soup.
soupRow(sp, row) == [i \in 1..SOUP_WIDTH |-> sp[row * SOUP_WIDTH + i]]

getNeighborRows(sp, slot) ==
    LET row == slot \div SOUP_WIDTH IN
    [above |-> [i \in 1..neighborsPerSide |->
                    soupRow(sp, ((row - i) + SOUP_HEIGHT) % SOUP_HEIGHT)],
     below |-> [i \in 1..neighborsPerSide |->
                    soupRow(sp, (row + i) % SOUP_HEIGHT)]]

\* compressionCost(arrays): the number of distinct bigrams (x << 8) | y, inside
\* each array and from the last byte of an array to the first of the next.
compressionCost(arrays) ==
    LET inside == UNION {{arrays[a][i] * 256 + arrays[a][i + 1] :
                            i \in 1..(Len(arrays[a]) - 1)} : a \in 1..Len(arrays)}
        across == {arrays[a][Len(arrays[a])] * 256 + arrays[a + 1][1] :
                        a \in 1..(Len(arrays) - 1)}
    IN Cardinality(inside \cup across)

\* "costSwap < costNoSwap" of runPair for the halves left, right of the tape.
swapIsCheaper(sp, a, b, leftData, rightData) ==
    LET neighborsA == getNeighborRows(sp, a)
        neighborsB == getNeighborRows(sp, b)
        costNoSwap ==
            compressionCost(neighborsA.above \o <<leftData>> \o neighborsA.below)
            + compressionCost(neighborsB.above \o <<rightData>> \o neighborsB.below)
        costSwap ==
            compressionCost(neighborsA.above \o <<rightData>> \o neighborsA.below)
            + compressionCost(neighborsB.above \o <<leftData>> \o neighborsB.below)
    IN costSwap < costNoSwap

\* The write-back with the second setSlice of each branch left out.
runPairWriteBackOneRegion(sp, a, b, combined) ==
    LET halves == splitTape(combined, "concat")
    IN IF swapIsCheaper(sp, a, b, halves.left, halves.right)
       THEN setSlice(sp, a, halves.right)
       ELSE setSlice(sp, a, halves.left)

\* The write-back of runPair (taken when interpreter.writeCount > 0).
runPairWriteBack(sp, a, b, combined) ==
    LET halves == splitTape(combined, "concat")
    IN IF swapIsCheaper(sp, a, b, halves.left, halves.right)
       THEN setSlice(setSlice(sp, a, halves.right), b, halves.left)
       ELSE setSlice(setSlice(sp, a, halves.left), b, halves.right)

\* runPair without the early abort on a tape that has no instruction.
runPairNoEarlyAbort(sp, a, b) ==
    LET combined == combineTapes(getSlice(sp, a), getSlice(sp, b), "concat")
        fin == run(reset(combined))
    IN [soup |-> IF fin.writeCount > 0
                 THEN runPairWriteBack(sp, a, b, fin.tape) ELSE sp,
        tape |-> fin.tape, steps |-> fin.stepCount, haltReason |-> fin.haltReason,
        writes |-> fin.writeCount, loopJumps |-> fin.loopJumps]

\* Population.runPair(pair): the soup afterwards, the returned object and the
\* combined tape as the interpreter left it.
runPair(sp, a, b) ==
    LET combined == combineTapes(getSlice(sp, a), getSlice(sp, b), "concat") IN
    IF ~hasInstructions(combined)
    THEN [soup |-> sp, tape |-> combined, steps |-> 0,
          haltReason |-> "no_instructions", writes |-> Null, loopJumps |-> Null]
    ELSE LET fin == run(reset(combined)) IN
         [soup |-> IF fin.writeCount > 0
                   THEN runPairWriteBack(sp, a, b, fin.tape) ELSE sp,
          tape |-> fin.tape, steps |-> fin.stepCount, haltReason |-> fin.haltReason,
          writes |-> fin.writeCount, loopJumps |-> fin.loopJumps]

\* Population.selectRandomSlice: the starts it can return.
SeqSliceStarts == {slot * R : slot \in 0..((SOUP_SIZE \div R) - 1)}

----------------------------------------------------------------------------
(* The WASM interpreter behind execute_pair / execute_batch.  Its Rust source *)
(* is not part of the sources; it is modelled from the specification's        *)
(* opcode table and execution loop.                                           *)

\* Initial head1 positions the driver configures (PopulationWasm.head1Offset).
Head1Offsets == {0, R}

wasmReset(t, head1Offset) ==
    [tape |-> t, ip |-> 0, head0 |-> 0, head1 |-> head1Offset % Len(t),
     steps |-> 0, head0Count |-> 0, head1Count |-> 0, mathCount |-> 0,
     copyCount |-> 0, loopCount |-> 0, halted |-> FALSE, haltReason |-> Null]

wasmAdvance(s) ==
    IF s.ip + 1 >= Len(s.tape)
    THEN [s EXCEPT !.ip = @ + 1, !.halted = TRUE, !.haltReason = "end_of_tape"]
    ELSE [s EXCEPT !.ip = @ + 1]

wasmJump(s, direction) ==
    LET target == findMatchingBracket(s.tape, s.ip, direction) IN
    IF target = -1
    THEN [s EXCEPT !.halted = TRUE, !.haltReason = "unmatched_bracket"]
    ELSE wasmAdvance([s EXCEPT !.ip = target])

wasmStep(s, maxSteps) ==
    IF s.halted THEN s
    ELSE IF s.steps >= maxSteps
    THEN [s EXCEPT !.halted = TRUE, !.haltReason = "max_steps"]
    ELSE LET byte == s.tape[s.ip + 1]
             L == Len(s.tape)
             s1 == [s EXCEPT !.steps = @ + 1]
         IN CASE byte = 60 ->
                    wasmAdvance([s1 EXCEPT !.head0 = (@ - 1) % L, !.head0Count = @ + 1])
              [] byte = 62 ->
                    wasmAdvance([s1 EXCEPT !.head0 = (@ + 1) % L, !.head0Count = @ + 1])
              [] byte = 123 ->
                    wasmAdvance([s1 EXCEPT !.head1 = (@ - 1) % L, !.head1Count = @ + 1])
              [] byte = 125 ->
                    wasmAdvance([s1 EXCEPT !.head1 = (@ + 1) % L, !.head1Count = @ + 1])
              [] byte = 45 ->
                    wasmAdvance([s1 EXCEPT !.tape[s.head0 + 1] = (@ - 1) % 256,
                                           !.mathCount = @ + 1])
              [] byte = 43 ->
                    wasmAdvance([s1 EXCEPT !.tape[s.head0 + 1] = (@ + 1) % 256,
                                           !.mathCount = @ + 1])
              [] byte = 46 ->
                    wasmAdvance([s1 EXCEPT !.tape[s.head1 + 1] = s.tape[s.head0 + 1],
                                           !.copyCount = @ + 1])
              [] byte = 44 ->
                    wasmAdvance([s1 EXCEPT !.tape[s.head0 + 1] = s.tape[s.head1 + 1],
                                           !.copyCount = @ + 1])
              [] byte = 91 ->
                    IF s.tape[s.head0 + 1] = 0
                    THEN wasmJump([s1 EXCEPT !.loopCount = @ + 1], 1)
                    ELSE wasmAdvance([s1 EXCEPT !.loopCount = @ + 1])
              [] byte = 93 ->
                    IF s.tape[s.head0 + 1] # 0
                    THEN wasmJump([s1 EXCEPT !.loopCount = @ + 1], -1)
                    ELSE wasmAdvance([s1 EXCEPT !.loopCount = @ + 1])
              [] OTHER -> wasmAdvance(s1)

RECURSIVE wasmRun(_, _)
wasmRun(s, maxSteps) == IF s.halted THEN s ELSE wasmRun(wasmStep(s, maxSteps), maxSteps)

\* execute_tape with the fast pre-check: the stats and the post-execution tape.
wasmExecuteTape(t, head1Offset, maxSteps) ==
    IF ~hasInstructions(t)
    THEN [steps |-> 0, head0Count |-> 0, head1Count |-> 0, mathCount |-> 0,
          copyCount |-> 0, loopCount |-> 0, haltReason |-> "no_instructions",
          tape |-> t]
    ELSE LET fin == wasmRun(wasmReset(t, head1Offset), maxSteps) IN
         [steps |-> fin.steps, head0Count |-> fin.head0Count,
          head1Count |-> fin.head1Count, mathCount |-> fin.mathCount,
          copyCount |-> fin.copyCount, loopCount |-> fin.loopCount,
          haltReason |-> fin.haltReason, tape |-> fin.tape]

\* execute_pair: the tape [A | B] of the regions at slot_a and slot_b, executed.
wasmExecutePair(sp, slotA, slotB, head1Offset, maxSteps) ==
    wasmExecuteTape([i \in 1..(2 * R) |->
                        IF i <= R THEN sp[slotA + i] ELSE sp[slotB + i - R]],
                    head1Offset, maxSteps)

\* execute_batch: one record per pair, each computed from the soup passed in
\* (the glue copies the soup into WASM memory and copies nothing back).
wasmExecuteBatch(sp, pairs, head1Offset, maxSteps) ==
    [i \in 1..Len(pairs) |->
        wasmExecutePair(sp, pairs[i].a, pairs[i].b, head1Offset, maxSteps)]

----------------------------------------------------------------------------
(* The worker's 'execute' handler (src/wasm/pkg/turing_soup_wasm.d.ts:155-211) *)

\* The copy loop "soup[a + j] = ...; soup[b + j] = ..." from offset j on.
RECURSIVE workerCopyFrom(_, _, _, _, _)
workerCopyFrom(sp, a, b, tapeBytes, j) ==
    IF j >= R THEN sp
    ELSE workerCopyFrom([[sp EXCEPT ![a + j + 1] = tapeBytes[j + 1]]
                            EXCEPT ![b + j + 1] = tapeBytes[R + j + 1]],
                        a, b, tapeBytes, j + 1)

\* The write-back gated on the arithmetic writes alone.
workerWriteBackMathOnly(sp, pair, res) ==
    IF res.mathCount > 0
    THEN workerCopyFrom(sp, pair.a, pair.b, res.tape, 0)
    ELSE sp

\* "Write results back to shared soup if any modifications occurred".
workerWriteBack(sp, pair, res) ==
    IF res.mathCount > 0 \/ res.copyCount > 0
    THEN workerCopyFrom(sp, pair.a, pair.b, res.tape, 0)
    ELSE sp

\* Region starts a selected pair can have in PopulationWasm (alignment 1).
WasmSliceStarts == 0..(SOUP_SIZE - R)

WasmPairs == {p \in [a : WasmSliceStarts, b : WasmSliceStarts] :
                (IF p.a >= p.b THEN p.a - p.b ELSE p.b - p.a) >= R}

----------------------------------------------------------------------------
(* Pair execution as a state machine: one pair is executed on an initial soup, *)
(* by Population.runPair or by a worker that received the pair alone.          *)

\* An initialized soup; the interpreter of runPair is local to the call.
PairInit ==
    /\ running = FALSE
    /\ soup \in InitSoups
    /\ lastRun = NoRun
    /\ interp = Null
    /\ initialTape = Null
    /\ sel = Null
    /\ pop = Null /\ pool = Null /\ workers = Null /\ toMain = Null /\ dispatches = Null
    /\ batchRun = Null

\* Population.runPair({a, b}).  The object returned by the early abort has no
\* writes and no loopJumps; they are recorded as updateExecMetrics reads them
\* ("r.loopJumps || 0").  The JS interpreter counts no head moves.
RunPair(a, b) ==
    /\ lastRun = NoRun
    /\ LET r == runPair(soup, a, b) IN
        /\ soup' = r.soup
        /\ lastRun' = [impl |-> "runPair", a |-> a, b |-> b, before |-> soup,
                       tape |-> r.tape,
                       writes |-> IF r.haltReason = "no_instructions" THEN 0 ELSE r.writes,
                       loops |-> IF r.haltReason = "no_instructions" THEN 0 ELSE r.loopJumps,
                       moves |-> 0, steps |-> r.steps,
                       haltReason |-> r.haltReason]
    /\ UNCHANGED <<interpVars, selVars, poolVars, batchVars, driverVars>>

\* The worker handles an 'execute' message whose batch is the single pair.
WorkerPair(pair, head1Offset) ==
    /\ lastRun = NoRun
    /\ LET res == wasmExecuteBatch(soup, <<pair>>, head1Offset, MAX_STEPS)[1] IN
        /\ soup' = workerWriteBack(soup, pair, res)
        /\ lastRun' = [impl |-> "worker", a |-> pair.a, b |-> pair.b, before |-> soup,
                       tape |-> res.tape, writes |-> res.mathCount + res.copyCount,
                       loops |-> res.loopCount,
                       moves |-> res.head0Count + res.head1Count, steps |-> res.steps,
                       haltReason |-> res.haltReason]
    /\ UNCHANGED <<interpVars, selVars, poolVars, batchVars, driverVars>>

PairNext ==
    \/ \E a, b \in SeqSliceStarts : a # b /\ RunPair(a, b)
    \/ \E pair \in WasmPairs, h \in Head1Offsets : WorkerPair(pair, h)

PairSpec == PairInit /\ [][PairNext]_vars

----------------------------------------------------------------------------
(* Claims about pair execution *)

\* Region [start, start + R) of a soup.
Region(sp, start) == [i \in 1..R |-> sp[start + i]]

FirstHalf(t) == [i \in 1..R |-> t[i]]
SecondHalf(t) == [i \in 1..R |-> t[i + R]]

\* C3 as stated: after a pair ran, with no write counted the soup is as before;
\* otherwise region a holds the first R bytes of the post-execution tape and
\* region b the next R bytes.
C3_AsStated ==
    lastRun.impl # "none" =>
        IF lastRun.writes = 0
        THEN soup = lastRun.before
        ELSE /\ Region(soup, lastRun.a) = FirstHalf(lastRun.tape)
             /\ Region(soup, lastRun.b) = SecondHalf(lastRun.tape)

\* C3 amended: the gate is as stated, and a worker writes the halves back in
\* order; Population.runPair writes them back in order unless the swapped
\* placement has the strictly lower neighbour compression cost, and then
\* region a holds the second half and region b the first.
C3_WriteBackGate ==
    lastRun.impl # "none" =>
        IF lastRun.writes = 0
        THEN soup = lastRun.before
        ELSE LET swapped ==
                    /\ lastRun.impl = "runPair"
                    /\ swapIsCheaper(lastRun.before, lastRun.a, lastRun.b,
                                     FirstHalf(lastRun.tape), SecondHalf(lastRun.tape))
             IN /\ Region(soup, lastRun.a) =
                        IF swapped THEN SecondHalf(lastRun.tape) ELSE FirstHalf(lastRun.tape)
                /\ Region(soup, lastRun.b) =
                        IF swapped THEN FirstHalf(lastRun.tape) ELSE SecondHalf(lastRun.tape)

\* Population.runPair ran a pair that wrote, and the halves were swapped.
C3_Witness ==
    /\ lastRun.impl = "runPair"
    /\ lastRun.writes > 0
    /\ swapIsCheaper(lastRun.before, lastRun.a, lastRun.b,
                     FirstHalf(lastRun.tape), SecondHalf(lastRun.tape))
    /\ Region(soup, lastRun.a) = SecondHalf(lastRun.tape)
    /\ Region(soup, lastRun.a) # FirstHalf(lastRun.tape)

----------------------------------------------------------------------------
(* Pair selection: PopulationWasm.selectRandomSlice / selectRandomPair        *)
(* (src/unnamed/part_000:152-194) and Population.selectRandomSlice /          *)
(* selectRandomPair (src/js/bff.js:531-548).  Each draw of Math.random() is   *)
(* one transition, so a rejected draw is a loop iteration that changes nothing *)

Abs(x) == IF x < 0 THEN -x ELSE x

Min(x, y) == IF x < y THEN x ELSE y
Max(x, y) == IF x > y THEN x ELSE y

\* this.numTapes = Math.floor((width * height) / regionSize)
numTapes == SOUP_SIZE \div R

\* The alignments a selection is made with.
Alignments == 1..R

\* localityLimit in percent.  The code takes the unrestricted branch for null
\* and for 0 alike; 0 stands for both.  The limits are scaled to the size of
\* the soup of the model.
LocalityLimits == {0, 30, 60}

\* const maxStart = this.soup.length - this.regionSize
maxStart == SOUP_SIZE - R

\* numPositions counted to the end of the soup instead of to maxStart.
numPositionsToEnd(alignment) == (SOUP_SIZE \div alignment) + 1

\* const numPositions = Math.floor(maxStart / this.alignment) + 1
numPositions(alignment) == (maxStart \div alignment) + 1

\* The overlap test that only rejects the region a itself.
overlapsSameStart(x, y) == x = y

\* Math.abs(b - a) < this.regionSize
overlaps(x, y) == Abs(y - x) < R

\* The locality window in bytes: the division by the alignment left out.
localityInBytes(localityLimit, alignment) == (localityLimit * numTapes * R) \div 100

\* Math.floor(localityLimit * numTapes * regionSize / alignment / 100)
localityInPositions(localityLimit, alignment) ==
    (localityLimit * numTapes * R) \div (alignment * 100)

hasLocality(localityLimit) == localityLimit > 0

\* Population.selectRandomSlice: const numSlots = Math.floor(soup.length / regionSize)
numSlots == SOUP_SIZE \div R

SelectInit ==
    /\ running = FALSE
    /\ \E impl \in {"js", "wasm"}, al \in Alignments, loc \in LocalityLimits :
            sel = [impl |-> impl, alignment |-> al, localityLimit |-> loc,
                   pc |-> "idle", a |-> 0, b |-> 0]
    /\ interp = Null /\ initialTape = Null
    /\ soup = Null /\ lastRun = NoRun
    /\ pop = Null /\ pool = Null /\ workers = Null /\ toMain = Null /\ dispatches = Null
    /\ batchRun = Null

SelectUnchanged == UNCHANGED <<interpVars, pairVars, poolVars, batchVars, driverVars>>

\* PopulationWasm.selectRandomPair: const a = this.selectRandomSlice()
WasmSelectA(pos) ==
    /\ sel.impl = "wasm" /\ sel.pc = "idle"
    /\ pos \in 0..(numPositions(sel.alignment) - 1)
    /\ sel' = [sel EXCEPT !.a = pos * sel.alignment, !.pc = "drawB"]
    /\ SelectUnchanged

\* One iteration of the do-while of the locality branch.
WasmDrawBLocal(r) ==
    /\ sel.impl = "wasm" /\ sel.pc = "drawB"
    /\ hasLocality(sel.localityLimit)
    /\ LET posA == sel.a \div sel.alignment
           delta == localityInPositions(sel.localityLimit, sel.alignment)
           minPos == Max(0, posA - delta)
           maxPos == Min(numPositions(sel.alignment) - 1, posA + delta)
           posB == minPos + r
       IN /\ r \in 0..(maxPos - minPos)
          /\ sel' = IF overlaps(sel.a, posB * sel.alignment)
                    THEN sel
                    ELSE [sel EXCEPT !.b = posB * sel.alignment, !.pc = "returned"]
    /\ SelectUnchanged

\* One iteration of the do-while of the unrestricted branch.
WasmDrawBAny(pos) ==
    /\ sel.impl = "wasm" /\ sel.pc = "drawB"
    /\ ~hasLocality(sel.localityLimit)
    /\ pos \in 0..(numPositions(sel.alignment) - 1)
    /\ sel' = IF overlaps(sel.a, pos * sel.alignment)
              THEN sel
              ELSE [sel EXCEPT !.b = pos * sel.alignment, !.pc = "returned"]
    /\ SelectUnchanged

\* Population.selectRandomPair: const a = this.selectRandomSlice()
JsSelectA(slot) ==
    /\ sel.impl = "js" /\ sel.pc = "idle"
    /\ slot \in 0..(numSlots - 1)
    /\ sel' = [sel EXCEPT !.a = slot * R, !.pc = "drawB"]
    /\ SelectUnchanged

\* One iteration of do { b = this.selectRandomSlice() } while (a === b)
JsDrawB(slot) ==
    /\ sel.impl = "js" /\ sel.pc = "drawB"
    /\ slot \in 0..(numSlots - 1)
    /\ sel' = IF sel.a = slot * R
              THEN sel
              ELSE [sel EXCEPT !.b = slot * R, !.pc = "returned"]
    /\ SelectUnchanged

\* The caller takes the pair; the next call starts.
SelectReturn ==
    /\ sel.pc = "returned"
    /\ sel' = [sel EXCEPT !.pc = "idle"]
    /\ SelectUnchanged

\* updateAlignment (src/js/bff.js:2068-2076), between two calls.
UpdateAlignment(alignment) ==
    /\ sel.impl = "wasm" /\ sel.pc = "idle"
    /\ sel' = [sel EXCEPT !.alignment = alignment]
    /\ SelectUnchanged

\* updateLocality (src/js/bff.js:2053-2066), between two calls.
UpdateLocality(localityLimit) ==
    /\ sel.impl = "wasm" /\ sel.pc = "idle"
    /\ sel' = [sel EXCEPT !.localityLimit = localityLimit]
    /\ SelectUnchanged

SelectNext ==
    \/ \E pos \in 0..SOUP_SIZE : WasmSelectA(pos)
    \/ \E r \in 0..SOUP_SIZE : WasmDrawBLocal(r)
    \/ \E pos \in 0..SOUP_SIZE : WasmDrawBAny(pos)
    \/ \E slot \in 0..SOUP_SIZE : JsSelectA(slot)
    \/ \E slot \in 0..SOUP_SIZE : JsDrawB(slot)
    \/ SelectReturn
    \/ \E alignment \in Alignments : UpdateAlignment(alignment)
    \/ \E localityLimit \in LocalityLimits : UpdateLocality(localityLimit)

SelectSpec == SelectInit /\ [][SelectNext]_vars

----------------------------------------------------------------------------
(* Claims about pair selection *)

\* C5: every pair (a, b) returned by pair selection has |a - b| >= R, for every
\* alignment in 1..R, with and without a locality limit.
C5_NonOverlap ==
    sel.pc = "returned" => Abs(sel.a - sel.b) >= R

\* PopulationWasm returned two adjacent regions under an alignment smaller than
\* R and a locality limit.
C5_Witness ==
    /\ sel.pc = "returned" /\ sel.impl = "wasm"
    /\ sel.alignment < R
    /\ hasLocality(sel.localityLimit)
    /\ sel.a % R # 0
    /\ Abs(sel.a - sel.b) = R

\* The alignment the starts of a selection are multiples of.
selAlignment == IF sel.impl = "wasm" THEN sel.alignment ELSE R

\* C6: every region start s of a returned pair is a multiple of the alignment
\* and has 0 <= s and s + R <= SOUP_SIZE.
C6_AlignedInBounds ==
    sel.pc = "returned" =>
        \A s \in {sel.a, sel.b} :
            /\ s % selAlignment = 0
            /\ 0 <= s
            /\ s + R <= SOUP_SIZE

\* PopulationWasm returned the first and the last region of the soup.
C6_Witness ==
    /\ sel.pc = "returned" /\ sel.impl = "wasm"
    /\ sel.a = 0
    /\ sel.b + R = SOUP_SIZE
    /\ sel.b = (numPositions(sel.alignment) - 1) * sel.alignment

----------------------------------------------------------------------------
(* WorkerPool.executeBatch (src/unnamed/part_001:81-114): the slicing *)

\* The most workers a pool has (numWorkers = hardwareConcurrency - 1, at least 1).
MaxWorkers == 2

\* The longest pairs list handed to the slicing loop on its own.
MaxBatch == 4

\* The pairs the pool is handed: regions 0 and R in both orders.
PoolPairs == {[a |-> 0, b |-> R], [a |-> R, b |-> 0]}

\* Math.ceil(n / w)
Ceil(n, w) == (n + w - 1) \div w

\* Math.floor(n / w), in the place of Math.ceil.
pairsPerWorkerFloor(n, w) == n \div w

\* const pairsPerWorker = Math.ceil(pairs.length / numWorkers)
pairsPerWorker(n, w) == Ceil(n, w)

\* The loop "for (let i = 0; i < numWorkers; i++)" from iteration i on.
RECURSIVE splitFrom(_, _, _, _)
splitFrom(pairs, numWorkers, i, batches) ==
    IF i >= numWorkers THEN batches
    ELSE LET start == i * pairsPerWorker(Len(pairs), numWorkers)
             end == Min(start + pairsPerWorker(Len(pairs), numWorkers), Len(pairs))
         IN splitFrom(pairs, numWorkers, i + 1,
                      IF start < Len(pairs)
                      THEN Append(batches, SubSeq(pairs, start + 1, end))
                      ELSE batches)

\* The batches executeBatch builds from pairs.
splitBatches(pairs, numWorkers) == splitFrom(pairs, numWorkers, 0, <<>>)

\* All lists of length 0..n over S.
ListsUpTo(S, n) == UNION {[1..k -> S] : k \in 0..n}

BatchInit ==
    /\ running = FALSE
    /\ \E pairs \in ListsUpTo(PoolPairs, MaxBatch), w \in 1..MaxWorkers :
            batchRun = [pairs |-> pairs, numWorkers |-> w, batches |-> <<>>,
                        done |-> FALSE]
    /\ interp = Null /\ initialTape = Null
    /\ soup = Null /\ lastRun = NoRun
    /\ sel = Null
    /\ pop = Null /\ pool = Null /\ workers = Null /\ toMain = Null /\ dispatches = Null

\* The slicing loop of executeBatch runs on the pairs.
SplitBatch ==
    /\ ~batchRun.done
    /\ batchRun' = [batchRun EXCEPT
                        !.batches = splitBatches(batchRun.pairs, batchRun.numWorkers),
                        !.done = TRUE]
    /\ UNCHANGED <<interpVars, pairVars, selVars, poolVars, driverVars>>

\* executeBatch is called again, with another list.
NextBatch(pairs) ==
    /\ batchRun.done
    /\ batchRun' = [batchRun EXCEPT !.pairs = pairs, !.batches = <<>>, !.done = FALSE]
    /\ UNCHANGED <<interpVars, pairVars, selVars, poolVars, driverVars>>

BatchNext ==
    \/ SplitBatch
    \/ \E pairs \in ListsUpTo(PoolPairs, MaxBatch) : NextBatch(pairs)

BatchSpec == BatchInit /\ [][BatchNext]_vars

\* C9: executeBatch partitions the pairs into at most W contiguous non-empty
\* slices whose concatenation in worker order is the input, all of them except
\* possibly the last of size ceil(n / W).
C9_Partition ==
    batchRun.done =>
        LET b == batchRun.batches
            n == Len(batchRun.pairs)
        IN /\ Len(b) <= batchRun.numWorkers
           /\ \A i \in 1..Len(b) : Len(b[i]) > 0
           /\ Flatten(b) = batchRun.pairs
           /\ \A i \in 1..(Len(b) - 1) : Len(b[i]) = Ceil(n, batchRun.numWorkers)

\* A list that does not divide evenly: several slices, the last one shorter.
C9_Witness ==
    /\ batchRun.done
    /\ Len(batchRun.batches) = batchRun.numWorkers
    /\ Len(batchRun.batches) > 1
    /\ Len(batchRun.batches[Len(batchRun.batches)]) < Len(batchRun.batches[1])

----------------------------------------------------------------------------
(* The parallel soup: PopulationWasm (src/unnamed/part_000), WorkerPool       *)
(* (src/unnamed/part_001) and the workers (worker.js, in                      *)
(* src/wasm/pkg/turing_soup_wasm.d.ts:113-213).  The main thread runs one     *)
(* handler at a time; each worker runs its 'execute' handler in steps that    *)
(* interleave with the main thread and with the other workers.                *)

\* The most calls of executeBatch in one behaviour.
MaxDispatches == 2

\* this.maxPendingExecutions (50 in the code), scaled to the model.
maxPendingExecutions == 2

\* this.execAccumThreshold (1000 in the code), scaled to the model.
execAccumThreshold == 3

\* this.pairsPerStep (100 in the constructor), scaled to the model.
MaxPairsPerStep == 2

\* The byte a mutation writes.
MutBytes == {43}

\* The soup the random fill of initialize() produces: one '+' ahead of zeros.
PoolSoups == {[i \in 1..SOUP_SIZE |-> IF i = 1 THEN 43 ELSE 0]}

\* new Uint8Array(new SharedArrayBuffer(soupSize)): all zero.
ZeroSoup == [i \in 1..SOUP_SIZE |-> 0]

\* this.head1Offset and this.maxSteps as the driver hands them to executeBatch.
poolHead1Offset == R
poolMaxSteps == MAX_STEPS

NoCallback == [d |-> 0, i |-> 0]

NoResult == [none |-> TRUE]

ZeroTotals ==
    [totalHead0 |-> 0, totalHead1 |-> 0, totalMath |-> 0, totalCopy |-> 0,
     totalLoop |-> 0, count |-> 0]

\* totalHead0 += head0Count; ... for one pair's record.
addCounts(t, res) ==
    [t EXCEPT !.totalHead0 = @ + res.head0Count, !.totalHead1 = @ + res.head1Count,
              !.totalMath = @ + res.mathCount, !.totalCopy = @ + res.copyCount,
              !.totalLoop = @ + res.loopCount]

\* updateExecMetricsAggregated: the sums over the array of worker results.
RECURSIVE sumResults(_)
sumResults(results) ==
    IF results = <<>> THEN ZeroTotals
    ELSE LET r == Head(results)
             t == sumResults(Tail(results))
         IN [totalHead0 |-> r.totalHead0 + t.totalHead0,
             totalHead1 |-> r.totalHead1 + t.totalHead1,
             totalMath |-> r.totalMath + t.totalMath,
             totalCopy |-> r.totalCopy + t.totalCopy,
             totalLoop |-> r.totalLoop + t.totalLoop,
             count |-> r.count + t.count]

IdleWorker ==
    [inbox |-> <<>>, busy |-> FALSE, msg |-> NoCallback, pairs |-> <<>>,
     results |-> <<>>, k |-> 0, totals |-> ZeroTotals]

\* The byte mutateSelected can replace: the first byte of the first region of
\* currentPairs.
mutationTargets(pairs) ==
    IF pairs = <<>> THEN {} ELSE {(pairs[1].a + 0) % SOUP_SIZE}

\* What one call of mutateSelected does: nothing (also when mutationRate <= 0),
\* or one byte of a selected region replaced.
NoMutation == [idx |-> -1, byte |-> 0]

mutationChoices(mutationRate, pairs) ==
    {NoMutation} \cup
    (IF mutationRate <= 0 THEN {}
     ELSE [idx : mutationTargets(pairs), byte : MutBytes])

mutateSelected(sp, m) == IF m = NoMutation THEN sp ELSE [sp EXCEPT ![m.idx + 1] = m.byte]

\* generation = 0: the quotient pairCount / numTapes is kept as a fraction.
ZeroGeneration == [num |-> 0, den |-> 1]

\* "Track pairs and compute epoch" with the two statements in the other order.
soupStepCountersStale(p) ==
    [p EXCEPT !.generation = [num |-> p.pairCount, den |-> numTapes],
              !.pairCount = @ + p.pairsPerStep]

\* "Track pairs and compute epoch": pairCount += pairsPerStep;
\* generation = pairCount / numTapes.
soupStepCounters(p) ==
    [p EXCEPT !.pairCount = @ + p.pairsPerStep,
              !.generation = [num |-> p.pairCount + p.pairsPerStep, den |-> numTapes]]

PoolInit ==
    /\ running = FALSE
    /\ soup = ZeroSoup
    \* mutationRate stands for a positive rate (0.00024 in the constructor).
    /\ pop = [phase |-> "constructed", pairsPerStep |-> MaxPairsPerStep,
              mutationRate |-> 1, pendingExecutions |-> 0, pairCount |-> 0,
              generation |-> ZeroGeneration, selected |-> 0,
              currentPairs |-> <<>>, execAccumPairs |-> 0, samples |-> 0]
    /\ \E w \in 1..MaxWorkers :
            /\ pool = [ready |-> FALSE, numWorkers |-> w,
                       pendingCallbacks |-> [i \in 1..w |-> NoCallback]]
            /\ workers = [i \in 1..w |-> IdleWorker]
            /\ toMain = [i \in 1..w |-> <<>>]
    /\ dispatches = <<>>
    /\ interp = Null /\ initialTape = Null
    /\ lastRun = NoRun
    /\ sel = Null
    /\ batchRun = Null

PoolUnchanged == UNCHANGED <<interpVars, lastRun, selVars, batchVars, driverVars>>

\* A slice of the dispatch has not been executed and written back by its worker.
batchOutstanding(dr) == \E i \in 1..Len(dr.batches) : dr.sliceSums[i] = NoResult

\* workerPool.init resolves: every worker has answered 'ready'.
PoolInitDone ==
    /\ pop.phase = "constructed"
    /\ pop' = [pop EXCEPT !.phase = "poolReady"]
    /\ pool' = [pool EXCEPT !.ready = TRUE]
    /\ UNCHANGED <<soup, workers, toMain, dispatches>>
    /\ PoolUnchanged

\* init() with "this.ready = true" run although Promise.all rejected.
initRejectedMarksReady(p) == [p EXCEPT !.ready = TRUE]

\* init() when one initPromise rejects: "await Promise.all(initPromises)" throws
\* and "this.ready = true" is not reached.
initRejected(p) == p

\* A worker answers 'error' to 'init': workerPool.init rejects, and with it
\* Population.initialize(), whose caller reports the error.
PoolInitFailed ==
    /\ pop.phase = "constructed"
    /\ pop' = [pop EXCEPT !.phase = "failed"]
    /\ pool' = initRejected(pool)
    /\ UNCHANGED <<soup, workers, toMain, dispatches>>
    /\ PoolUnchanged

\* wasm.initWasm() resolves; initialize() fills the soup and resets its counters.
BridgeInitDone(sp) ==
    /\ pop.phase = "poolReady"
    /\ soup' = sp
    /\ pop' = [pop EXCEPT !.phase = "ready", !.pairCount = 0,
                            !.generation = ZeroGeneration, !.selected = 0,
                            !.samples = 0]
    /\ UNCHANGED <<pool, workers, toMain, dispatches>>
    /\ PoolUnchanged

\* The skip branch placed after "this.currentPairs = []".
SoupStepSkipClearsPairs ==
    /\ pop.pendingExecutions >= maxPendingExecutions
    /\ pop' = [pop EXCEPT !.currentPairs = <<>>]
    /\ UNCHANGED <<soup, pool, workers, toMain, dispatches>>
    /\ PoolUnchanged

\* soupStep() with pendingExecutions >= maxPendingExecutions: return [].
SoupStepSkip ==
    /\ pop.pendingExecutions >= maxPendingExecutions
    /\ UNCHANGED <<soup, pop, pool, workers, toMain, dispatches>>
    /\ PoolUnchanged

\* soupStep(): select the pairs, count them, call executeBatch (which throws
\* on a pool that is not ready, and otherwise registers one callback per slice
\* and posts the slices), then mutateSelected().
SoupStep(pairs, m) ==
    /\ pop.pendingExecutions < maxPendingExecutions
    /\ Len(dispatches) < MaxDispatches
    /\ pairs \in [1..pop.pairsPerStep -> PoolPairs]
    /\ m \in mutationChoices(pop.mutationRate, pairs)
    /\ LET d == Len(dispatches) + 1
           batches == IF pool.ready THEN splitBatches(pairs, pool.numWorkers) ELSE <<>>
           nb == Len(batches)
           dr == [pairs |-> pairs, batches |-> batches,
                  slots |-> [i \in 1..nb |-> NoResult],
                  sliceSums |-> [i \in 1..nb |-> NoResult],
                  status |-> IF pool.ready THEN "pending" ELSE "rejected",
                  caught |-> FALSE, decrements |-> 0, delivered |-> NoResult,
                  pendingAtIssue |-> pop.pendingExecutions,
                  mutatedWhileOutstanding |-> FALSE]
       IN /\ pop' = [soupStepCounters(pop) EXCEPT !.currentPairs = pairs,
                                                  !.selected = @ + Len(pairs),
                                                  !.pendingExecutions = @ + 1]
          /\ pool' = [pool EXCEPT !.pendingCallbacks =
                        [w \in 1..pool.numWorkers |->
                            IF w <= nb THEN [d |-> d, i |-> w]
                            ELSE pool.pendingCallbacks[w]]]
          /\ workers' = [w \in 1..pool.numWorkers |->
                            IF w <= nb
                            THEN [workers[w] EXCEPT !.inbox =
                                    Append(@, [d |-> d, i |-> w, pairs |-> batches[w],
                                               head1Offset |-> poolHead1Offset,
                                               maxSteps |-> poolMaxSteps])]
                            ELSE workers[w]]
          /\ dispatches' = Append(dispatches,
                                  [dr EXCEPT !.mutatedWhileOutstanding =
                                        m # NoMutation /\ batchOutstanding(dr)])
          /\ soup' = mutateSelected(soup, m)
    /\ UNCHANGED toMain
    /\ PoolUnchanged

\* The .catch handler of soupStep.
catchHandler(p) == [p EXCEPT !.pendingExecutions = @ - 1]

\* updateExecMetricsAggregated with the excess over the threshold carried over
\* instead of "this.execAccumPairs = 0".
updateExecMetricsAggregatedCarry(p, results) ==
    LET accum == p.execAccumPairs + sumResults(results).count IN
    IF accum >= execAccumThreshold
    THEN IF p.phase # "ready"
         THEN [pop |-> [p EXCEPT !.execAccumPairs = accum], threw |-> TRUE]
         ELSE [pop |-> [p EXCEPT !.execAccumPairs = accum, !.samples = @ + 1],
               threw |-> FALSE]
    ELSE [pop |-> [p EXCEPT !.execAccumPairs = accum], threw |-> FALSE]

\* updateExecMetricsAggregated(results): the accumulator, and updateComplexity()
\* once it crosses the threshold, which throws 'WASM not initialized' until
\* wasm.initWasm() has resolved.
updateExecMetricsAggregated(p, results) ==
    LET accum == p.execAccumPairs + sumResults(results).count IN
    IF accum >= execAccumThreshold
    THEN IF p.phase # "ready"
         THEN [pop |-> [p EXCEPT !.execAccumPairs = 0], threw |-> TRUE]
         ELSE [pop |-> [p EXCEPT !.execAccumPairs = 0, !.samples = @ + 1],
               threw |-> FALSE]
    ELSE [pop |-> [p EXCEPT !.execAccumPairs = accum], threw |-> FALSE]

\* .then(aggregatedResults => { pendingExecutions--; update... }).catch(...)
\* on a resolved executeBatch: the .catch also handles a throw of the .then.
settleResolved(p, results) ==
    LET u == updateExecMetricsAggregated([p EXCEPT !.pendingExecutions = @ - 1], results)
    IN IF u.threw
       THEN [pop |-> catchHandler(u.pop), decrements |-> 2, caught |-> TRUE]
       ELSE [pop |-> u.pop, decrements |-> 1, caught |-> FALSE]

\* The rejection of executeBatch reaches the .catch handler.
SettleReject(d) ==
    /\ d \in 1..Len(dispatches)
    /\ dispatches[d].status = "rejected" /\ ~dispatches[d].caught
    /\ pop' = catchHandler(pop)
    /\ dispatches' = [dispatches EXCEPT ![d].caught = TRUE, ![d].decrements = @ + 1]
    /\ UNCHANGED <<soup, pool, workers, toMain>>
    /\ PoolUnchanged

\* The worker takes an 'execute' message and calls execute_batch on its slice.
WorkerExecute(w) ==
    /\ w \in 1..pool.numWorkers
    /\ ~workers[w].busy /\ workers[w].inbox # <<>>
    /\ LET msg == Head(workers[w].inbox) IN
        workers' = [workers EXCEPT ![w] =
                        [inbox |-> Tail(workers[w].inbox), busy |-> TRUE,
                         msg |-> [d |-> msg.d, i |-> msg.i], pairs |-> msg.pairs,
                         results |-> wasmExecuteBatch(soup, msg.pairs, msg.head1Offset,
                                                      msg.maxSteps),
                         k |-> 1, totals |-> ZeroTotals]]
    /\ UNCHANGED <<soup, pop, pool, toMain, dispatches>>
    /\ PoolUnchanged

\* One iteration of the worker's loop over its pairs: the gated write-back and
\* the totals; after the last pair the 'results' message is posted.
WorkerWriteBack(w) ==
    /\ w \in 1..pool.numWorkers
    /\ workers[w].busy
    /\ LET wk == workers[w]
           res == wk.results[wk.k]
           t == addCounts(wk.totals, res)
           posted == [t EXCEPT !.count = Len(wk.pairs)]
       IN /\ soup' = workerWriteBack(soup, wk.pairs[wk.k], res)
          /\ IF wk.k = Len(wk.pairs)
             THEN /\ workers' = [workers EXCEPT ![w] = [IdleWorker EXCEPT !.inbox = wk.inbox]]
                  /\ toMain' = [toMain EXCEPT ![w] = Append(@, posted)]
                  /\ dispatches' = [dispatches EXCEPT ![wk.msg.d].sliceSums[wk.msg.i] = posted]
             ELSE /\ workers' = [workers EXCEPT ![w].k = @ + 1, ![w].totals = t]
                  /\ UNCHANGED <<toMain, dispatches>>
    /\ UNCHANGED <<pop, pool>>
    /\ PoolUnchanged

\* The pool's result handler for worker w (src/unnamed/part_001:47-55), and
\* what the resolved promises run after it.
MainOnResults(w) ==
    /\ w \in 1..pool.numWorkers
    /\ toMain[w] # <<>>
    /\ toMain' = [toMain EXCEPT ![w] = Tail(@)]
    /\ LET r == Head(toMain[w])
           cb == pool.pendingCallbacks[w]
       IN IF cb = NoCallback
          THEN UNCHANGED <<pop, pool, dispatches>>
          ELSE LET dr == dispatches[cb.d]
                   slots == [dr.slots EXCEPT ![cb.i] = r]
                   settled == settleResolved(pop, slots)
               IN /\ pool' = [pool EXCEPT !.pendingCallbacks[w] = NoCallback]
                  /\ IF \E i \in 1..Len(slots) : slots[i] = NoResult
                     THEN /\ dispatches' = [dispatches EXCEPT ![cb.d].slots = slots]
                          /\ UNCHANGED pop
                     ELSE /\ dispatches' = [dispatches EXCEPT ![cb.d] =
                                    [dr EXCEPT !.slots = slots, !.status = "resolved",
                                               !.delivered = sumResults(slots),
                                               !.decrements = settled.decrements,
                                               !.caught = settled.caught]]
                          /\ pop' = settled.pop
    /\ UNCHANGED <<soup, workers>>
    /\ PoolUnchanged

PoolNext ==
    \/ PoolInitDone
    \/ PoolInitFailed
    \/ \E sp \in PoolSoups : BridgeInitDone(sp)
    \/ SoupStepSkip
    \/ \E pairs \in [1..pop.pairsPerStep -> PoolPairs] :
            \E m \in mutationChoices(pop.mutationRate, pairs) : SoupStep(pairs, m)
    \/ \E d \in 1..MaxDispatches : SettleReject(d)
    \/ \E w \in 1..MaxWorkers : WorkerExecute(w)
    \/ \E w \in 1..MaxWorkers : WorkerWriteBack(w)
    \/ \E w \in 1..MaxWorkers : MainOnResults(w)

PoolSpec == PoolInit /\ [][PoolNext]_vars

----------------------------------------------------------------------------
(* Claims about the parallel soup *)

\* C7: in every step, the mutation of the step's selected regions happens only
\* after the pool has completed that step's batch; no mutation is applied while
\* the batch is still outstanding.
C7_MutationAfterBatch ==
    \A d \in 1..Len(dispatches) : ~dispatches[d].mutatedWhileOutstanding

\* The promise chain of the dispatch has run to its end.
dispatchSettled(dr) ==
    \/ dr.status = "resolved"
    \/ dr.status = "rejected" /\ dr.caught

\* C8: 0 <= pendingExecutions <= maxPendingExecutions in every reachable state;
\* a dispatch is issued only when pendingExecutions < maxPendingExecutions; and
\* each dispatch decrements the counter exactly once, when it settles.
C8_BackPressure ==
    /\ pop.pendingExecutions >= 0
    /\ pop.pendingExecutions <= maxPendingExecutions
    /\ \A d \in 1..Len(dispatches) :
        /\ dispatches[d].pendingAtIssue < maxPendingExecutions
        /\ dispatches[d].decrements = IF dispatchSettled(dispatches[d]) THEN 1 ELSE 0

\* C10: the aggregate delivered to the driver for a dispatch is the sum of the
\* per-slice counter sums of exactly that dispatch's pairs, and its count is
\* the number of pairs dispatched, also with several dispatches outstanding.
C10_AggregatePerDispatch ==
    \A d \in 1..Len(dispatches) :
        LET dr == dispatches[d] IN
        dr.delivered # NoResult =>
            IF \E i \in 1..Len(dr.sliceSums) : dr.sliceSums[i] = NoResult
            THEN FALSE
            ELSE /\ dr.delivered = sumResults(dr.sliceSums)
                 /\ dr.delivered.count = Len(dr.pairs)

----------------------------------------------------------------------------
(* A batch handled by one worker: the whole 'execute' handler                 *)
(* (src/wasm/pkg/turing_soup_wasm.d.ts:155-211) on a batch of two pairs, the  *)
(* pool having a single worker so that the slice is the batch.                *)

\* The loop over the results: pair i's record is written back, then pair i + 1's.
RECURSIVE workerWriteBackFrom(_, _, _, _)
workerWriteBackFrom(sp, pairs, results, i) ==
    IF i > Len(pairs) THEN sp
    ELSE workerWriteBackFrom(workerWriteBack(sp, pairs[i], results[i]),
                             pairs, results, i + 1)

\* The handler: one execute_batch call for the slice, then the write-back loop.
workerExecute(sp, pairs, head1Offset, maxSteps) ==
    workerWriteBackFrom(sp, pairs,
                        wasmExecuteBatch(sp, pairs, head1Offset, maxSteps), 1)

\* The pairs one at a time in order, each write-back committed before the
\* next pair is extracted.
RECURSIVE executePairsInOrder(_, _, _, _, _)
executePairsInOrder(sp, pairs, head1Offset, maxSteps, i) ==
    IF i > Len(pairs) THEN sp
    ELSE executePairsInOrder(
            workerWriteBack(sp, pairs[i],
                            wasmExecutePair(sp, pairs[i].a, pairs[i].b,
                                            head1Offset, maxSteps)),
            pairs, head1Offset, maxSteps, i + 1)

WorkerBatchInit ==
    /\ running = FALSE
    /\ soup \in InitSoups
    /\ lastRun = NoRun
    /\ interp = Null
    /\ initialTape = Null
    /\ sel = Null
    /\ pop = Null /\ pool = Null /\ workers = Null /\ toMain = Null /\ dispatches = Null
    /\ batchRun = Null

\* The worker handles an 'execute' message carrying the batch.
WorkerBatch(pairs, head1Offset) ==
    /\ lastRun = NoRun
    /\ soup' = workerExecute(soup, pairs, head1Offset, MAX_STEPS)
    /\ lastRun' = [impl |-> "batch", pairs |-> pairs, head1Offset |-> head1Offset,
                   before |-> soup]
    /\ UNCHANGED <<interpVars, selVars, poolVars, batchVars, driverVars>>

WorkerBatchNext ==
    \E p1, p2 \in WasmPairs, h \in Head1Offsets : WorkerBatch(<<p1, p2>>, h)

WorkerBatchSpec == WorkerBatchInit /\ [][WorkerBatchNext]_vars

\* C11 as stated: after a single worker handled a batch, the soup is the one
\* that executing the batch's pairs one at a time in the same order, each
\* write-back committed before the next pair is extracted, produces.
C11_BatchIsSequential ==
    lastRun.impl = "batch" =>
        soup = executePairsInOrder(lastRun.before, lastRun.pairs,
                                   lastRun.head1Offset, MAX_STEPS, 1)

----------------------------------------------------------------------------
(* Claims about single instructions of the interpreter *)

\* The next call of step() fetches and dispatches the byte at ip.
Dispatching == ~interp.halted /\ interp.stepCount < MAX_STEPS

\* The byte the next call of step() fetches.
Fetched == TapeGet(interp.tape, interp.ip)

DispatchingOp(c) == Dispatching /\ Fetched = BFF_INSTRUCTIONS[c]

\* C13: head0 and head1 are always in 0 .. 2R - 1; '<' and '{' at index 0 wrap
\* the head to 2R - 1, and '>' and '}' at index 2R - 1 wrap it to 0.
C13_HeadsWrap ==
    /\ [](interp.head0 \in 0..(2 * R - 1) /\ interp.head1 \in 0..(2 * R - 1))
    /\ [][/\ (DispatchingOp("<") /\ interp.head0 = 0) => interp'.head0 = 2 * R - 1
          /\ (DispatchingOp("{") /\ interp.head1 = 0) => interp'.head1 = 2 * R - 1
          /\ (DispatchingOp(">") /\ interp.head0 = 2 * R - 1) => interp'.head0 = 0
          /\ (DispatchingOp("}") /\ interp.head1 = 2 * R - 1) => interp'.head1 = 0]_vars

\* '<' at head0 = 0 wrapped head0 to 2R - 1 and the '>' after it wrapped it back.
C13_Witness ==
    /\ initialTape[1] = BFF_INSTRUCTIONS["<"] /\ initialTape[2] = BFF_INSTRUCTIONS[">"]
    /\ interp.stepCount = 2 /\ interp.head0 = 0

\* C14: every tape cell is a byte, and '+' and '-' replace T[head0] by its
\* successor and predecessor modulo 256 (255 + 1 = 0, 0 - 1 = 255) and change
\* no other cell.
C14_ByteArithmetic ==
    /\ [](\A i \in 1..(2 * R) : interp.tape[i] \in 0..255)
    /\ [][/\ DispatchingOp("+") =>
                interp'.tape = [interp.tape EXCEPT ![interp.head0 + 1] =
                                    IF @ = 255 THEN 0 ELSE @ + 1]
          /\ DispatchingOp("-") =>
                interp'.tape = [interp.tape EXCEPT ![interp.head0 + 1] =
                                    IF @ = 0 THEN 255 ELSE @ - 1]]_vars

\* '+' was dispatched on a cell holding 255 and the cell now holds 0.
C14_Witness ==
    /\ initialTape[1] = BFF_INSTRUCTIONS["<"] /\ initialTape[2] = BFF_INSTRUCTIONS["+"]
    /\ initialTape[2 * R] = 255
    /\ interp.stepCount = 2 /\ interp.tape[2 * R] = 0

\* C15: the instruction pointer is never wrapped: a running interpreter has
\* 0 <= ip < 2R; ip >= 2R only in an interpreter halted with end_of_tape (and
\* then ip = 2R); and no step sets ip back to 0.
C15_IpNeverWraps ==
    /\ [](~interp.halted => interp.ip \in 0..(2 * R - 1))
    /\ [](interp.ip >= 2 * R =>
            /\ interp.ip = 2 * R
            /\ interp.halted /\ interp.haltReason = "end_of_tape")
    /\ [][interp'.ip = 0 => interp.ip = 0]_vars
    /\ [][(Dispatching /\ interp.ip = 2 * R - 1
              /\ Fetched \notin {BFF_INSTRUCTIONS["["], BFF_INSTRUCTIONS["]"]})
            => /\ interp'.ip = 2 * R
               /\ interp'.halted /\ interp'.haltReason = "end_of_tape"]_vars

\* The post-increment after the last byte of the tape ended the run.
C15_Witness ==
    /\ interp.halted /\ interp.haltReason = "end_of_tape"
    /\ interp.ip = 2 * R /\ interp.stepCount = 2 * R

\* C16: dispatching a byte that is none of the ten opcodes adds one to stepCount
\* and one to ip and changes neither the tape, nor a head, nor a counter.
C16_NoOpFrame ==
    [][(Dispatching /\ Fetched \notin OpcodeBytes) =>
            /\ interp'.stepCount = interp.stepCount + 1
            /\ interp'.ip = interp.ip + 1
            /\ interp'.tape = interp.tape
            /\ interp'.head0 = interp.head0 /\ interp'.head1 = interp.head1
            /\ interp'.writeCount = interp.writeCount
            /\ interp'.loopJumps = interp.loopJumps]_vars

\* A non-opcode byte was dispatched after an opcode that had moved head0.
C16_Witness ==
    /\ initialTape[1] = BFF_INSTRUCTIONS[">"] /\ initialTape[2] = 0
    /\ interp.stepCount = 2 /\ interp.ip = 2 /\ interp.head0 = 1

\* Opening brackets minus closing brackets among the cells lo .. hi (code indices).
bracketBalance(t, lo, hi) ==
    Cardinality({k \in lo..hi : t[k + 1] = BFF_INSTRUCTIONS["["]})
        - Cardinality({k \in lo..hi : t[k + 1] = BFF_INSTRUCTIONS["]"]})

\* The '[' at p and the ']' at q match: counting from p, the nesting depth is
\* positive before q and returns to zero at q.
bracketsMatch(t, p, q) ==
    /\ p < q
    /\ t[p + 1] = BFF_INSTRUCTIONS["["] /\ t[q + 1] = BFF_INSTRUCTIONS["]"]
    /\ bracketBalance(t, p, q) = 0
    /\ \A k \in p..(q - 1) : bracketBalance(t, p, k) > 0

C18_UnmatchedBracket ==
    /\ [][(/\ DispatchingOp("[") /\ interp.tape[interp.head0 + 1] = 0
           /\ ~\E q \in 0..(2 * R - 1) : bracketsMatch(interp.tape, interp.ip, q))
          => /\ interp'.halted /\ interp'.haltReason = "unmatched_bracket"
             /\ interp'.ip = interp.ip]_vars
    /\ [][(/\ DispatchingOp("]") /\ interp.tape[interp.head0 + 1] # 0
           /\ ~\E p \in 0..(2 * R - 1) : bracketsMatch(interp.tape, p, interp.ip))
          => /\ interp'.halted /\ interp'.haltReason = "unmatched_bracket"
             /\ interp'.ip = interp.ip]_vars
    /\ []((initialTape[1] = BFF_INSTRUCTIONS["]"] /\ interp.stepCount > 0)
            => /\ interp.halted /\ interp.haltReason = "unmatched_bracket"
               /\ interp.ip = 0 /\ interp.stepCount = 1)

\* A '[' taken with T[head0] = 0 and no ']' after it: halted at the bracket,
\* inside the tape.
C18_Witness ==
    /\ initialTape[1] = BFF_INSTRUCTIONS["<"] /\ initialTape[2] = BFF_INSTRUCTIONS["["]
    /\ initialTape[2 * R] = 0
    /\ interp.halted /\ interp.haltReason = "unmatched_bracket"
    /\ interp.ip = 1 /\ interp.stepCount = 2

----------------------------------------------------------------------------
(* Claims about the start and the early end of a pair execution *)

\* C19: a pair whose tape [A | B] holds none of the ten opcode bytes returns
\* steps = 0, every count 0 and the halt reason no_instructions, and the tape
\* and the soup stay byte-identical.
C19_NoInstructions ==
    (/\ lastRun.impl # "none"
     /\ \A i \in 1..R : /\ lastRun.before[lastRun.a + i] \notin OpcodeBytes
                        /\ lastRun.before[lastRun.b + i] \notin OpcodeBytes)
    => /\ lastRun.steps = 0
       /\ lastRun.writes = 0 /\ lastRun.loops = 0 /\ lastRun.moves = 0
       /\ lastRun.haltReason = "no_instructions"
       /\ FirstHalf(lastRun.tape) = Region(lastRun.before, lastRun.a)
       /\ SecondHalf(lastRun.tape) = Region(lastRun.before, lastRun.b)
       /\ soup = lastRun.before

\* Population.runPair ended a pair without instructions early, in a soup that
\* has instructions elsewhere.
C19_Witness ==
    /\ lastRun.impl = "runPair"
    /\ lastRun.haltReason = "no_instructions" /\ lastRun.steps = 0
    /\ hasInstructions(lastRun.before)
    /\ soup = lastRun.before

----------------------------------------------------------------------------
(* The start of a pair execution.  Population.runPair constructs a            *)
(* BFFInterpreter on the combined tape; PopulationWasm.soupStep hands its      *)
(* head1Offset to the pool, the worker hands it to execute_batch.  The UI's    *)
(* head1 offset slider (src/js/bff.js:1323-1329) sets PopulationWasm's field.  *)

\* PopulationWasm's constructor sets head1Offset = 32 whatever the region size;
\* with the UI's region size of 64 that is half a region.
wasmDefaultHead1Offset == R \div 2

\* The slider runs up to the combined tape length.
SliderOffsets == 0..(2 * R)

\* What an interpreter state shows of ip, heads, counters and halted.
jsStart(s) ==
    [ip |-> s.ip, head0 |-> s.head0, head1 |-> s.head1,
     counters |-> s.stepCount + s.writeCount + s.loopJumps, halted |-> s.halted]

wasmStart(s) ==
    [ip |-> s.ip, head0 |-> s.head0, head1 |-> s.head1,
     counters |-> s.steps + s.head0Count + s.head1Count + s.mathCount
                    + s.copyCount + s.loopCount,
     halted |-> s.halted]

StartInit ==
    /\ running = FALSE
    /\ soup \in InitSoups
    /\ pop = [head1Offset |-> wasmDefaultHead1Offset, configured |-> FALSE]
    /\ lastRun = NoRun
    /\ interp = Null
    /\ initialTape = Null
    /\ sel = Null
    /\ pool = Null /\ workers = Null /\ toMain = Null /\ dispatches = Null
    /\ batchRun = Null

\* updateHead1Offset(): population.head1Offset = the slider's value.
UpdateHead1Offset(offset) ==
    /\ lastRun = NoRun
    /\ pop' = [head1Offset |-> offset, configured |-> TRUE]
    /\ UNCHANGED <<interpVars, pairVars, selVars, pool, workers, toMain, dispatches,
                   batchVars, driverVars>>

\* Population.runPair on a pair that has instructions: the interpreter it
\* constructs is recorded as it starts.  Population has no head1Offset.
StartRunPair(a, b) ==
    /\ lastRun = NoRun
    /\ LET combined == combineTapes(getSlice(soup, a), getSlice(soup, b), "concat") IN
        /\ hasInstructions(combined)
        /\ lastRun' = [impl |-> "runPair", configured |-> FALSE, head1Offset |-> 0,
                       start |-> jsStart(reset(combined))]
    /\ soup' = runPair(soup, a, b).soup
    /\ UNCHANGED <<interpVars, selVars, poolVars, batchVars, driverVars>>

\* A worker executes a pair that has instructions with the population's
\* head1Offset: the interpreter state execute_batch starts the pair from.
StartWorkerPair(pair) ==
    /\ lastRun = NoRun
    /\ LET tape == [i \in 1..(2 * R) |->
                        IF i <= R THEN soup[pair.a + i] ELSE soup[pair.b + i - R]] IN
        /\ hasInstructions(tape)
        /\ lastRun' = [impl |-> "worker", configured |-> pop.configured,
                       head1Offset |-> pop.head1Offset,
                       start |-> wasmStart(wasmReset(tape, pop.head1Offset))]
    /\ soup' = workerExecute(soup, <<pair>>, pop.head1Offset, MAX_STEPS)
    /\ UNCHANGED <<interpVars, selVars, poolVars, batchVars, driverVars>>

StartNext ==
    \/ \E offset \in SliderOffsets : UpdateHead1Offset(offset)
    \/ \E a, b \in SeqSliceStarts : a # b /\ StartRunPair(a, b)
    \/ \E pair \in WasmPairs : StartWorkerPair(pair)

StartSpec == StartInit /\ [][StartNext]_vars

\* C20 as stated: every pair execution starts from ip = 0, head0 = 0 and
\* head1 = head1Offset mod 2R, where head1Offset is the configured offset and R
\* when none was configured, with every counter zero and halted = FALSE.
C20_InitialState ==
    lastRun.impl # "none" =>
        /\ lastRun.start.ip = 0 /\ lastRun.start.head0 = 0
        /\ lastRun.start.head1 =
                (IF lastRun.configured THEN lastRun.head1Offset ELSE R) % (2 * R)
        /\ lastRun.start.counters = 0
        /\ ~lastRun.start.halted

----------------------------------------------------------------------------
(* More claims about pair selection *)

----------------------------------------------------------------------------
(* Claims about the driver's counters *)

\* C22: every issued step adds exactly pairsPerStep, the number of pairs it
\* selected, to pairCount and sets generation = pairCount / numTapes; so
\* pairCount is the number of pairs selected since initialize() reset the
\* counters, and generation * numTapes = pairCount.
C22_PairCount ==
    /\ [](pop.pairCount = pop.selected)
    /\ [](pop.generation.num * numTapes = pop.pairCount * pop.generation.den)
    /\ [][pop'.currentPairs # pop.currentPairs \/ pop'.pendingExecutions > pop.pendingExecutions
            => /\ pop'.pairCount = pop.pairCount + pop.pairsPerStep
               /\ Len(pop'.currentPairs) = pop.pairsPerStep]_vars

\* Two steps were issued on the initialized population.
C22_Witness ==
    /\ pop.phase = "ready"
    /\ pop.pairCount = 2 * pop.pairsPerStep
    /\ pop.generation.num = pop.pairCount /\ pop.generation.den = numTapes
    /\ Len(dispatches) = 2

----------------------------------------------------------------------------
(* Claims about the interpreter's counters.  BFFInterpreter counts steps in   *)
(* stepCount, '+', '-', '.', ',' in writeCount and the jumps of ']' in         *)
(* loopJumps; it has no counter for head moves.                                *)

\* The opcode counters of the interpreter, added up.
opcodeCount == interp.writeCount + interp.loopJumps

\* How far the opcode counters are behind the steps.
countDeficit == interp.stepCount - opcodeCount

C24_AsStated ==
    [][(DispatchingOp("[") \/ DispatchingOp("]")) =>
            interp'.loopJumps = interp.loopJumps + 1]_vars

\* The next step is a ']' whose backward jump is taken and finds its '['.
BackwardJumpTaken ==
    /\ DispatchingOp("]") /\ interp.tape[interp.head0 + 1] # 0
    /\ \E p \in 0..(2 * R - 1) : bracketsMatch(interp.tape, p, interp.ip)

\* C24 amended: the loop counter of BFFInterpreter, loopJumps, is incremented
\* by exactly one by every dispatched ']' whose backward jump is taken, and by
\* nothing else: not by '[', and not by a ']' that falls through or halts.
C24_LoopJumps ==
    [][interp'.loopJumps =
            IF BackwardJumpTaken THEN interp.loopJumps + 1 ELSE interp.loopJumps]_vars

\* A '[' fell through uncounted, then the ']' jumped back to it and was counted.
C24_Witness ==
    /\ initialTape[1] = BFF_INSTRUCTIONS["["] /\ initialTape[2] = 0
    /\ initialTape[3] = BFF_INSTRUCTIONS["]"]
    /\ interp.stepCount = 3 /\ interp.ip = 1 /\ interp.loopJumps = 1

----------------------------------------------------------------------------
----------------------------------------------------------------------------
(* The run loop of the page over an initialized population, and the teardown
   of the pool *)

\* The state once initializePopulation() has resolved: the pool is ready, the
\* soup is filled, the counters are 0 and the page is paused.
DriverInit ==
    /\ running = FALSE
    /\ soup \in PoolSoups
    /\ pop = [phase |-> "ready", pairsPerStep |-> MaxPairsPerStep,
              mutationRate |-> 1, pendingExecutions |-> 0, pairCount |-> 0,
              generation |-> ZeroGeneration, selected |-> 0,
              currentPairs |-> <<>>, execAccumPairs |-> 0, samples |-> 0]
    /\ \E w \in 1..MaxWorkers :
            /\ pool = [ready |-> TRUE, numWorkers |-> w,
                       pendingCallbacks |-> [i \in 1..w |-> NoCallback]]
            /\ workers = [i \in 1..w |-> IdleWorker]
            /\ toMain = [i \in 1..w |-> <<>>]
    /\ dispatches = <<>>
    /\ interp = Null /\ initialTape = Null
    /\ lastRun = NoRun
    /\ sel = Null
    /\ batchRun = Null

\* startRunning(): "if (running) return; running = true", and the first frame
\* is requested.
StartRunning ==
    /\ ~running
    /\ running' = TRUE
    /\ UNCHANGED <<interpVars, pairVars, selVars, poolVars, batchVars>>

\* stopRunning(): "running = false" and the requested frame is cancelled.
StopRunning ==
    /\ running' = FALSE
    /\ UNCHANGED <<interpVars, pairVars, selVars, poolVars, batchVars>>

\* A runLoop frame without "if (!running) return".
RunLoopUnguarded ==
    \/ SoupStepSkip
    \/ \E pairs \in [1..pop.pairsPerStep -> PoolPairs] :
            \E m \in mutationChoices(pop.mutationRate, pairs) : SoupStep(pairs, m)

\* One iteration of the for loop of a runLoop frame: "if (!running) return" has
\* passed and population.soupStep() is called. No handler of the page runs
\* between the iterations of one frame; the workers do.
RunLoop ==
    /\ running
    /\ \/ SoupStepSkip
       \/ \E pairs \in [1..pop.pairsPerStep -> PoolPairs] :
            \E m \in mutationChoices(pop.mutationRate, pairs) : SoupStep(pairs, m)

\* WorkerPool.terminate(): worker.terminate() on every worker, which aborts its
\* script and empties the queue of messages it has posted; workers = [];
\* ready = false. pendingCallbacks is left as it is. The emptied workers list is
\* visible only through ready: executeBatch throws before it reads its length.
Terminate ==
    /\ pool' = [pool EXCEPT !.ready = FALSE]
    /\ workers' = [w \in DOMAIN workers |-> IdleWorker]
    /\ toMain' = [w \in DOMAIN toMain |-> <<>>]
    /\ UNCHANGED <<soup, pop, dispatches>>
    /\ PoolUnchanged

DriverNext ==
    \/ StartRunning
    \/ StopRunning
    \/ RunLoop
    \/ Terminate
    \/ \E d \in 1..MaxDispatches : SettleReject(d)
    \/ \E w \in 1..MaxWorkers : WorkerExecute(w)
    \/ \E w \in 1..MaxWorkers : WorkerWriteBack(w)
    \/ \E w \in 1..MaxWorkers : MainOnResults(w)

DriverSpec == DriverInit /\ [][DriverNext]_vars

\* The executeBatch promise of the dispatch has been neither resolved nor
\* rejected: its completion callback has not run.
outstanding(dr) == dr.status = "pending"

\* C27: the pool releases its workers only in a state in which no dispatch is
\* outstanding: every batch issued before has completed and its completion
\* callback has run.
C27_TeardownDrains ==
    [][(pool.ready /\ ~pool'.ready) =>
            \A d \in 1..Len(dispatches) : ~outstanding(dispatches[d])]_vars

\* A step posts an 'execute' message to some worker.
postsToWorker ==
    \E w \in DOMAIN workers : Len(workers'[w].inbox) > Len(workers[w].inbox)

\* C28: while the driver is stopped no batch is dispatched: a step that issues
\* an executeBatch call or posts a slice to a worker is taken with running set.
\* Stopping touches nothing but the flag, so the batches outstanding at that
\* moment stay with their workers and callbacks and go on to completion.
C28_StoppedDriver ==
    /\ [][(Len(dispatches') > Len(dispatches) \/ postsToWorker) => running]_vars
    /\ [][(running /\ ~running') =>
            UNCHANGED <<soup, pop, pool, workers, toMain, dispatches>>]_vars

\* The driver is stopped, a batch issued before has delivered its results to
\* the driver, and a worker is still executing a slice.
C28_Witness ==
    /\ ~running
    /\ \E d \in 1..Len(dispatches) :
            dispatches[d].status = "resolved" /\ dispatches[d].delivered # NoResult
    /\ \E w \in DOMAIN workers : workers[w].busy

\* The step resolves dispatch d: its aggregated results reach the driver.
resolves(d) ==
    /\ d \in 1..Len(dispatches)
    /\ dispatches[d].status = "pending"
    /\ dispatches'[d].status = "resolved"

\* C29: the accumulator of completed pairs is below the threshold in every
\* state; a delivery that takes it to the threshold or beyond invokes
\* updateComplexity exactly once and restarts the accumulator at 0; any other
\* delivery adds its count and invokes nothing; and nothing else touches the
\* accumulator or invokes the callback.
C29_ComplexityCallback ==
    /\ [](pop.execAccumPairs >= 0 /\ pop.execAccumPairs < execAccumThreshold)
    /\ [][\A d \in 1..MaxDispatches : resolves(d) =>
            LET accum == pop.execAccumPairs + dispatches'[d].delivered.count IN
            IF accum >= execAccumThreshold
            THEN pop'.execAccumPairs = 0 /\ pop'.samples = pop.samples + 1
            ELSE pop'.execAccumPairs = accum /\ pop'.samples = pop.samples]_vars
    /\ [][(\A d \in 1..MaxDispatches : ~resolves(d)) =>
            pop'.execAccumPairs = pop.execAccumPairs /\ pop'.samples = pop.samples]_vars

\* One delivery has left the accumulator between 0 and the threshold and a
\* later one has crossed it: the callback has run once and the accumulator has
\* restarted.
C29_Witness ==
    /\ pop.samples = 1
    /\ pop.execAccumPairs = 0
    /\ Len(dispatches) = 2
    /\ \A d \in 1..2 : dispatches[d].status = "resolved"
                       /\ dispatches[d].delivered.count < execAccumThreshold

\* Closing brackets minus opening brackets among the cells lo .. hi.
closeBalance(t, lo, hi) == 0 - bracketBalance(t, lo, hi)

\* The '[' at p is the match of the ']' at q with the nesting counted
\* backwards from q: closes increment, opens decrement, and p is the first
\* cell, going down from q, at which the depth is back to zero.
matchesBackward(t, p, q) ==
    /\ p < q
    /\ t[p + 1] = BFF_INSTRUCTIONS["["] /\ t[q + 1] = BFF_INSTRUCTIONS["]"]
    /\ closeBalance(t, p, q) = 0
    /\ \A k \in (p + 1)..q : closeBalance(t, k, q) > 0

----------------------------------------------------------------------------
\* C31: dispatching '.' sets T[head1] to T[head0] and dispatching ',' sets
\* T[head0] to T[head1]; every other cell keeps its value, neither head moves,
\* and the write count grows by one, also when the two heads are on one cell.
C31_Copy ==
    /\ [][DispatchingOp(".") =>
            /\ interp'.tape = [interp.tape EXCEPT ![interp.head1 + 1] =
                                    interp.tape[interp.head0 + 1]]
            /\ interp'.head0 = interp.head0 /\ interp'.head1 = interp.head1
            /\ interp'.writeCount = interp.writeCount + 1]_vars
    /\ [][DispatchingOp(",") =>
            /\ interp'.tape = [interp.tape EXCEPT ![interp.head0 + 1] =
                                    interp.tape[interp.head1 + 1]]
            /\ interp'.head0 = interp.head0 /\ interp'.head1 = interp.head1
            /\ interp'.writeCount = interp.writeCount + 1]_vars

\* After '>' the ',' at 1 was dispatched with head0 = 1 and head1 = 0 and has
\* overwritten itself with the '>' of cell 0.
C31_Witness ==
    /\ initialTape[1] = BFF_INSTRUCTIONS[">"] /\ initialTape[2] = BFF_INSTRUCTIONS[","]
    /\ interp.stepCount = 2 /\ interp.head0 = 1 /\ interp.head1 = 0
    /\ interp.tape[2] = BFF_INSTRUCTIONS[">"] /\ interp.writeCount = 1

\* Every 'execute' message has been answered and every answer handled: no
\* worker has a message waiting or is executing, no 'results' message is on its
\* way to the main thread and no rejection is waiting for its .catch.
quiescent ==
    /\ \A w \in DOMAIN workers : workers[w].inbox = <<>> /\ ~workers[w].busy
    /\ \A w \in DOMAIN toMain : toMain[w] = <<>>
    /\ \A d \in 1..Len(dispatches) :
            dispatches[d].status = "rejected" => dispatches[d].caught

\* C32: on a pool that has not been terminated, once every worker has answered
\* every 'execute' message and the answers have been handled, every dispatch
\* has settled, its completion callback has run exactly once, and
\* pendingExecutions is back to 0.
C32_DispatchesSettle ==
    (pool.ready /\ quiescent) =>
        /\ \A d \in 1..Len(dispatches) :
                dispatchSettled(dispatches[d]) /\ dispatches[d].decrements = 1
        /\ pop.pendingExecutions = 0

\* The positions the do-while of selectRandomPair can draw for the second
\* region in the current call, as byte offsets.
candidatesB ==
    IF sel.impl = "js" THEN {slot * R : slot \in 0..(numSlots - 1)}
    ELSE IF hasLocality(sel.localityLimit)
    THEN LET posA == sel.a \div sel.alignment
             delta == localityInPositions(sel.localityLimit, sel.alignment)
             minPos == Max(0, posA - delta)
             maxPos == Min(numPositions(sel.alignment) - 1, posA + delta)
         IN {posB * sel.alignment : posB \in minPos..maxPos}
    ELSE {pos * sel.alignment : pos \in 0..(numPositions(sel.alignment) - 1)}

\* C33: for every configuration and every first pick a, the range the second
\* region is drawn from holds a position at distance R or more from a, so
\* the rejection loop has a draw that ends it.
C33_SelectionTerminates ==
    sel.pc = "drawB" => \E b \in candidatesB : Abs(b - sel.a) >= R

----------------------------------------------------------------------------
(* The page from its load on: the pending initializePopulation(), the run
   loop and the handlers that replace the population *)

\* Key 'r', and updateTapeLength on a new length: stopRunning(), then
\* initializePopulation() up to its await: "population = new Population(...)"
\* and the synchronous part of initialize(). The page now drives the new
\* object; the old one, its pool and its workers are dropped from view.
Reset ==
    /\ running' = FALSE
    /\ soup' = ZeroSoup
    /\ pop' = [phase |-> "constructed", pairsPerStep |-> MaxPairsPerStep,
               mutationRate |-> 1, pendingExecutions |-> 0, pairCount |-> 0,
               generation |-> ZeroGeneration, selected |-> 0,
               currentPairs |-> <<>>, execAccumPairs |-> 0, samples |-> 0]
    /\ \E w \in 1..MaxWorkers :
            /\ pool' = [ready |-> FALSE, numWorkers |-> w,
                        pendingCallbacks |-> [i \in 1..w |-> NoCallback]]
            /\ workers' = [i \in 1..w |-> IdleWorker]
            /\ toMain' = [i \in 1..w |-> <<>>]
    /\ dispatches' = <<>>
    /\ UNCHANGED <<interpVars, lastRun, selVars, batchVars>>

PageNext ==
    \/ PoolInitDone
    \/ PoolInitFailed
    \/ \E sp \in PoolSoups : BridgeInitDone(sp)
    \/ StartRunning
    \/ StopRunning
    \/ RunLoop
    \/ Reset
    \/ \E d \in 1..MaxDispatches : SettleReject(d)
    \/ \E w \in 1..MaxWorkers : WorkerExecute(w)
    \/ \E w \in 1..MaxWorkers : WorkerWriteBack(w)
    \/ \E w \in 1..MaxWorkers : MainOnResults(w)

PageSpec == PoolInit /\ [][PageNext]_vars

\* C34: soupStep runs only on a population whose initialize() has completed:
\* a step in which soupStep issues a dispatch is taken with the worker pool
\* ready and initialize() resolved.
C34_StepAfterInitialize ==
    [][Len(dispatches') > Len(dispatches) =>
            pop.phase = "ready" /\ pool.ready]_vars

----------------------------------------------------------------------------
\* The step is one iteration of a worker's write-back loop.
isWriteBack ==
    \E w \in DOMAIN workers :
        /\ workers[w].busy
        /\ soup' = workerWriteBack(soup, workers[w].pairs[workers[w].k],
                                   workers[w].results[workers[w].k])

\* C35: while pendingExecutions >= maxPendingExecutions a call of soupStep
\* changes nothing: no step taken in such a state changes pairCount,
\* generation or currentPairs, selects a pair, issues a dispatch or raises
\* pendingExecutions, and the soup changes only by a worker's write-back of a
\* batch issued earlier, never by a mutation.
C35_SkippedTick ==
    [][pop.pendingExecutions >= maxPendingExecutions =>
            /\ pop'.pairCount = pop.pairCount
            /\ pop'.generation = pop.generation
            /\ pop'.currentPairs = pop.currentPairs
            /\ pop'.selected = pop.selected
            /\ pop'.pendingExecutions <= pop.pendingExecutions
            /\ Len(dispatches') = Len(dispatches)
            /\ (soup' # soup => isWriteBack)]_vars

\* The run loop is at the limit with pairs selected: its next soupStep is
\* skipped.
C35_Witness ==
    /\ running
    /\ pop.pendingExecutions = maxPendingExecutions
    /\ pop.currentPairs # <<>>
    /\ ENABLED SoupStepSkip

----------------------------------------------------------------------------
(* One soupStep with its batch: the bytes a step can change *)

\* The index loops of mutateSelected run one byte past each region.
mutationIndicesPastEnd(pairs) ==
    UNION {{(pairs[k].a + i) % SOUP_SIZE, (pairs[k].b + i) % SOUP_SIZE} :
                k \in 1..Len(pairs), i \in 0..R}

\* mutateSelected: the indices (pair.a + i) % soup.length and
\* (pair.b + i) % soup.length, i < regionSize, over currentPairs.
mutationIndices(pairs) ==
    UNION {{(pairs[k].a + i) % SOUP_SIZE, (pairs[k].b + i) % SOUP_SIZE} :
                k \in 1..Len(pairs), i \in 0..(R - 1)}

\* What one call of mutateSelected does to the soup: nothing when
\* mutationRate <= 0, and otherwise nothing or a byte at one of its indices
\* replaced.
mutatedSoups(sp, mutationRate, pairs) ==
    {sp} \cup
    (IF mutationRate <= 0 THEN {}
     ELSE {[sp EXCEPT ![idx + 1] = byte] :
                idx \in mutationIndices(pairs), byte \in MutBytes})

\* A worker that has not been handed a slice.
FrameIdle == [pairs |-> <<>>, results |-> <<>>, k |-> 0]

FrameInit ==
    /\ running = FALSE
    /\ soup \in InitSoups
    /\ \E rate \in {0, 1} :
            pop = [phase |-> "idle", mutationRate |-> rate, currentPairs |-> <<>>]
    /\ workers = [w \in 1..MaxWorkers |-> FrameIdle]
    /\ lastRun = NoRun
    /\ interp = Null /\ initialTape = Null
    /\ sel = Null
    /\ pool = Null /\ toMain = Null /\ dispatches = Null
    /\ batchRun = Null

\* soupStep(): the pairs are selected, executeBatch posts one slice to each
\* worker, and mutateSelected() runs before any worker has answered.
FrameSoupStep(pairs, sp) ==
    /\ pop.phase = "idle"
    /\ sp \in mutatedSoups(soup, pop.mutationRate, pairs)
    /\ pop' = [pop EXCEPT !.phase = "dispatched", !.currentPairs = pairs]
    /\ workers' = [w \in 1..MaxWorkers |->
                    [FrameIdle EXCEPT !.pairs = splitBatches(pairs, MaxWorkers)[w]]]
    /\ soup' = sp
    /\ lastRun' = [impl |-> "step", pairs |-> pairs, before |-> soup,
                   written |-> FALSE]
    /\ UNCHANGED <<interpVars, selVars, pool, toMain, dispatches, batchVars, driverVars>>

\* The worker's 'execute' handler up to the return of execute_batch.
FrameExecute(w) ==
    /\ pop.phase = "dispatched"
    /\ workers[w].k = 0
    /\ workers' = [workers EXCEPT ![w].k = 1,
                        ![w].results = wasmExecuteBatch(soup, workers[w].pairs,
                                                        poolHead1Offset, poolMaxSteps)]
    /\ UNCHANGED <<interpVars, pairVars, selVars, pop, pool, toMain, dispatches,
                   batchVars, driverVars>>

\* One iteration of the worker's write-back loop.
FrameWriteBack(w) ==
    /\ workers[w].k >= 1 /\ workers[w].k <= Len(workers[w].pairs)
    /\ soup' = workerWriteBack(soup, workers[w].pairs[workers[w].k],
                               workers[w].results[workers[w].k])
    /\ workers' = [workers EXCEPT ![w].k = @ + 1]
    /\ lastRun' = [lastRun EXCEPT !.written = TRUE]
    /\ UNCHANGED <<interpVars, selVars, pop, pool, toMain, dispatches, batchVars,
                   driverVars>>

FrameNext ==
    \/ \E p1 \in WasmPairs, p2 \in PoolPairs :
            \E sp \in mutatedSoups(soup, pop.mutationRate, <<p1, p2>>) :
                FrameSoupStep(<<p1, p2>>, sp)
    \/ \E w \in 1..MaxWorkers : FrameExecute(w)
    \/ \E w \in 1..MaxWorkers : FrameWriteBack(w)

FrameSpec == FrameInit /\ [][FrameNext]_vars

\* The soup indices inside a region selected by the pairs.
selectedBytes(pairs) ==
    {p + i : p \in {pairs[k].a : k \in 1..Len(pairs)} \cup
                   {pairs[k].b : k \in 1..Len(pairs)},
             i \in 0..(R - 1)}

\* C36: at every point of a step, under every interleaving of the workers,
\* each soup byte outside the regions selected in the step has the value it
\* had when the step began; and with mutationRate <= 0 the soup is unchanged
\* until a worker writes back.
C36_StepFrame ==
    lastRun # NoRun =>
        /\ \A idx \in 0..(SOUP_SIZE - 1) :
                idx \notin selectedBytes(lastRun.pairs) =>
                    soup[idx + 1] = lastRun.before[idx + 1]
        /\ (pop.mutationRate <= 0 /\ ~lastRun.written) => soup = lastRun.before

\* Both workers have written their pair back, a mutation was applied, and the
\* step has changed the soup while a byte outside its regions exists.
C36_Witness ==
    /\ lastRun # NoRun
    /\ pop.mutationRate > 0
    /\ \A w \in 1..MaxWorkers : workers[w].k > Len(workers[w].pairs)
    /\ soup # lastRun.before
    /\ \E idx \in 0..(SOUP_SIZE - 1) : idx \notin selectedBytes(lastRun.pairs)
    /\ \E idx \in selectedBytes(lastRun.pairs) :
            soup[idx + 1] = 43 /\ lastRun.before[idx + 1] # 43

----------------------------------------------------------------------------
\* The next step dispatches a bracket whose jump is not taken.
BracketNotTaken ==
    \/ DispatchingOp("[") /\ interp.tape[interp.head0 + 1] # 0
    \/ DispatchingOp("]") /\ interp.tape[interp.head0 + 1] = 0

\* The next step dispatches a bracket whose jump is taken.
BracketTaken ==
    \/ DispatchingOp("[") /\ interp.tape[interp.head0 + 1] = 0
    \/ DispatchingOp("]") /\ interp.tape[interp.head0 + 1] # 0

\* C37: a '[' dispatched with T[head0] # 0 and a ']' dispatched with
\* T[head0] = 0 only move on to the next cell and never halt with
\* unmatched_bracket, whether or not the bracket has a match; the reason
\* unmatched_bracket is set only by a step that dispatches a taken bracket.
C37_UnmatchedOnlyWhenTaken ==
    /\ [][BracketNotTaken =>
            /\ interp'.ip = interp.ip + 1
            /\ interp'.haltReason # "unmatched_bracket"]_vars
    /\ [][(interp.haltReason # "unmatched_bracket"
           /\ interp'.haltReason = "unmatched_bracket") => BracketTaken]_vars

\* The '[' at 0, which no ']' follows, was dispatched with T[head0] # 0: the
\* run went on to cell 1 and has ended at the end of the tape.
C37_Witness ==
    /\ initialTape[1] = BFF_INSTRUCTIONS["["]
    /\ \A i \in 2..(2 * R) : initialTape[i] # BFF_INSTRUCTIONS["]"]
    /\ interp.stepCount >= 1
    /\ interp.halted /\ interp.haltReason = "end_of_tape"

\* C38: halted is absorbing: a call of step() on a halted interpreter leaves
\* ip, both heads, the three counters, the halt reason and the tape as they
\* are; and stepCount is at most MAX_STEPS in every reachable state.
C38_HaltedAbsorbing ==
    /\ [][interp.halted => interp' = interp]_vars
    /\ [](interp.stepCount <= MAX_STEPS)

\* A run that wrote to its tape was stopped by the step cap, and step() can
\* be called on it again.
C38_Witness ==
    /\ interp.halted /\ interp.haltReason = "max_steps"
    /\ interp.stepCount = MAX_STEPS /\ interp.writeCount > 0
    /\ ENABLED StepHalted

----------------------------------------------------------------------------
\* The soup indices of the two regions of the pair that ran.
pairBytes == {lastRun.a + i : i \in 0..(R - 1)} \cup {lastRun.b + i : i \in 0..(R - 1)}

\* C39: after Population.runPair, if no write was counted the soup is as it
\* was; otherwise both halves of the post-execution tape are in the soup, one
\* in each region: (A, B) = (right, left) when the swapped placement has the
\* strictly lower neighbour compression cost and (A, B) = (left, right) when it
\* has not; and every byte outside the two regions is as it was.
C39_RunPairPlacement ==
    lastRun.impl = "runPair" =>
        IF lastRun.writes = 0
        THEN soup = lastRun.before
        ELSE LET left == FirstHalf(lastRun.tape)
                 right == SecondHalf(lastRun.tape)
                 A == Region(soup, lastRun.a)
                 B == Region(soup, lastRun.b)
             IN /\ IF swapIsCheaper(lastRun.before, lastRun.a, lastRun.b, left, right)
                   THEN A = right /\ B = left
                   ELSE A = left /\ B = right
                /\ \A idx \in 0..(SOUP_SIZE - 1) :
                        idx \notin pairBytes => soup[idx + 1] = lastRun.before[idx + 1]

\* Population.runPair ran a pair that wrote, the halves went back in order,
\* and region A is no longer what it was.
C39_Witness ==
    /\ lastRun.impl = "runPair"
    /\ lastRun.writes > 0
    /\ ~swapIsCheaper(lastRun.before, lastRun.a, lastRun.b,
                      FirstHalf(lastRun.tape), SecondHalf(lastRun.tape))
    /\ Region(soup, lastRun.a) = FirstHalf(lastRun.tape)
    /\ Region(soup, lastRun.b) = SecondHalf(lastRun.tape)
    /\ Region(soup, lastRun.a) # Region(lastRun.before, lastRun.a)

\* ------------------------------------------------------------------------
\* combineTapes / splitTape as pure functions of two region tapes
\* ------------------------------------------------------------------------

\* largest region side of the populations drawn below
MaxSide == 2

\* the square region sizes new Population(width, height, regionSize) is given
RegionSizes == {side * side : side \in 1..MaxSide}

\* a population whose soup is two regions, not yet combined
TapeInit ==
    /\ soup \in UNION {[1..(2 * regionSize) -> FillBytes] : regionSize \in RegionSizes}
    /\ lastRun = NoRun
    /\ running = FALSE
    /\ interp = Null
    /\ initialTape = Null
    /\ sel = Null
    /\ pop = Null /\ pool = Null /\ workers = Null /\ toMain = Null /\ dispatches = Null
    /\ batchRun = Null

\* tapeA = getSlice(0), tapeB = getSlice(regionSize);
\* combined = combineTapes(tapeA, tapeB, mode); splitTape(combined, mode)
CombineSplit(mode) ==
    LET regionSize == Len(soup) \div 2
        tapeA == [i \in 1..regionSize |-> soup[i]]
        tapeB == [i \in 1..regionSize |-> soup[i + regionSize]]
        combined == combineTapes(tapeA, tapeB, mode)
        halves == splitTape(combined, mode)
    IN  /\ lastRun' = [impl |-> "tapes", mode |-> mode,
                       tapeA |-> tapeA, tapeB |-> tapeB,
                       combined |-> combined,
                       left |-> halves.left, right |-> halves.right]
        /\ lastRun' # lastRun
        /\ UNCHANGED <<soup, interpVars, selVars, poolVars, batchVars, driverVars>>

TapeNext == \E mode \in {"concat", "interleaved"} : CombineSplit(mode)

TapeSpec == TapeInit /\ [][TapeNext]_vars

\* C40: splitting a combined tape gives back the two region tapes, (left,
\* right) = (A, B), in 'concat' and in 'interleaved' mode; in 'concat' mode the
\* combined tape is A in its first R bytes and B in its next R bytes.
C40_CombineSplitInverse ==
    lastRun.impl = "tapes" =>
        /\ lastRun.left = lastRun.tapeA
        /\ lastRun.right = lastRun.tapeB
        /\ Len(lastRun.combined) = 2 * Len(lastRun.tapeA)
        /\ lastRun.mode = "concat" =>
              \A i \in 1..Len(lastRun.tapeA) :
                  /\ lastRun.combined[i] = lastRun.tapeA[i]
                  /\ lastRun.combined[i + Len(lastRun.tapeA)] = lastRun.tapeB[i]

\* a row-interleaved tape that is not the concatenation, split back into
\* two different regions
C40_Witness ==
    /\ lastRun.impl = "tapes"
    /\ lastRun.mode = "interleaved"
    /\ Len(lastRun.tapeA) = 4
    /\ lastRun.tapeA # lastRun.tapeB
    /\ lastRun.combined # lastRun.tapeA \o lastRun.tapeB
    /\ lastRun.left = lastRun.tapeA
    /\ lastRun.right = lastRun.tapeB

====
